---- MODULE Spec2Model ----
(***************************************************************************)
(* Model of milo73/my-aitoolbox: the SSRF URL validator (url_validator.py)  *)
(* and the web-summary flow that calls it (web_summary_app.py).            *)
(*                                                                         *)
(* A string is a sequence of one-character strings, so that the parsing    *)
(* the code performs (urlparse, netloc.split(':')[0]) is computed on the   *)
(* characters.  A message built with an f-string is a sequence of text     *)
(* fragments; the empty message "" is the empty sequence.                  *)
(***************************************************************************)
EXTENDS Integers, Sequences, FiniteSets, TLC

(***************************************************************************)
(* Generic string helpers.                                                 *)
(***************************************************************************)

\* 1-based index of the first occurrence of character c in s, 0 if absent
\* (str.find, shifted by one).
Find(s, c) ==
    IF \E i \in 1..Len(s) : s[i] = c
    THEN CHOOSE i \in 1..Len(s) : s[i] = c /\ \A j \in 1..(i - 1) : s[j] # c
    ELSE 0

\* 1-based index of the last occurrence of c in s, 0 if absent (str.rfind).
RFind(s, c) ==
    IF \E i \in 1..Len(s) : s[i] = c
    THEN CHOOSE i \in 1..Len(s) : s[i] = c /\ \A j \in (i + 1)..Len(s) : s[j] # c
    ELSE 0

\* 1-based index of the first character of s, at or after position from,
\* that belongs to the set cs; Len(s) + 1 if there is none.
FindAny(s, cs, from) ==
    IF \E i \in from..Len(s) : s[i] \in cs
    THEN CHOOSE i \in from..Len(s) : s[i] \in cs /\ \A j \in from..(i - 1) : s[j] \notin cs
    ELSE Len(s) + 1

Contains(s, c) == \E i \in 1..Len(s) : s[i] = c

\* s[a..b], empty when a > b.
Slice(s, a, b) == IF a > b THEN <<>> ELSE SubSeq(s, a, b)

\* str.partition(c)[0]: the part of s before the first c, s itself if no c.
Before(s, c) == IF Find(s, c) = 0 THEN s ELSE Slice(s, 1, Find(s, c) - 1)

\* str.partition(c)[2]: the part of s after the first c, "" if no c.
After(s, c) == IF Find(s, c) = 0 THEN <<>> ELSE Slice(s, Find(s, c) + 1, Len(s))

\* str.rpartition(c)[2]: the part of s after the last c, s itself if no c.
AfterLast(s, c) == IF RFind(s, c) = 0 THEN s ELSE Slice(s, RFind(s, c) + 1, Len(s))

UpperCase == {"H", "T", "P", "S"}

LowerOf(c) ==
    CASE c = "H" -> "h"
      [] c = "T" -> "t"
      [] c = "P" -> "p"
      [] c = "S" -> "s"
      [] OTHER -> c

\* str.lower()
Lower(s) == [i \in 1..Len(s) |-> LowerOf(s[i])]

Letters ==
    {"a", "b", "e", "f", "g", "h", "i", "l", "n", "o", "p", "r", "s", "t", "u", "x"}
      \cup UpperCase

Digits == {"0", "1", "2", "3", "4", "5", "6", "7", "8", "9"}

\* urllib.parse.scheme_chars: letters, digits and "+-."
scheme_chars == Letters \cup Digits \cup {"+", "-", "."}

(***************************************************************************)
(* urllib.parse.urlparse, as far as is_safe_url uses it: the scheme and    *)
(* the netloc, or the ValueError the parser raises.                        *)
(***************************************************************************)

\* IPv6 literals the model knows, with the address each denotes (eight
\* 16-bit groups).
IPv6Literals == { <<":", ":", "1">> }

IPv6Value(h) == <<0, 0, 0, 0, 0, 0, 0, 1>>

\* The scheme urlsplit recognises: url[:i] up to the first ':' when i > 0,
\* url[0] is a letter and every character of url[:i] is a scheme character.
HasScheme(u) ==
    /\ Find(u, ":") > 1
    /\ u[1] \in Letters
    /\ \A k \in 1..(Find(u, ":") - 1) : u[k] \in scheme_chars

\* The scheme kept as typed, without lower-casing.
SchemeOf_NoLower(u) == IF HasScheme(u) THEN Slice(u, 1, Find(u, ":") - 1) ELSE <<>>

SchemeOf(u) == IF HasScheme(u) THEN Lower(Slice(u, 1, Find(u, ":") - 1)) ELSE <<>>

AfterScheme(u) == IF HasScheme(u) THEN Slice(u, Find(u, ":") + 1, Len(u)) ELSE u

HasAuthority(r) == Len(r) >= 2 /\ r[1] = "/" /\ r[2] = "/"

\* _splitnetloc(url, 2): from after the "//" up to the first of "/?#".
NetlocOf(u) ==
    LET r == AfterScheme(u)
    IN  IF HasAuthority(r) THEN Slice(r, 3, FindAny(r, {"/", "?", "#"}, 3) - 1) ELSE <<>>

BracketedHost(netloc) == Before(After(netloc, "["), "]")

\* The message of the ValueError urlsplit raises for this netloc, <<>> if
\* it raises none.
NetlocError(netloc) ==
    IF \/ (Contains(netloc, "[") /\ ~Contains(netloc, "]"))
       \/ (Contains(netloc, "]") /\ ~Contains(netloc, "["))
    THEN <<"Invalid IPv6 URL">>
    ELSE IF Contains(netloc, "[") /\ Contains(netloc, "]")
              /\ BracketedHost(netloc) \notin IPv6Literals
         THEN BracketedHost(netloc) \o <<" does not appear to be an IPv4 or IPv6 address">>
         ELSE <<>>

urlparse(u) ==
    IF NetlocError(NetlocOf(u)) # <<>>
    THEN [ok |-> FALSE, type |-> "ValueError", msg |-> NetlocError(NetlocOf(u))]
    ELSE [ok |-> TRUE, scheme |-> SchemeOf(u), netloc |-> NetlocOf(u)]

\* parsed.netloc.split(':')[0]
ExtractHostname(netloc) == Before(netloc, ":")

\* The host a fetch of the URL connects to: the authority after the last
\* '@', without the port, brackets removed, lower-cased.
FetchHost(netloc) ==
    LET hostinfo == AfterLast(netloc, "@")
    IN  IF Contains(hostinfo, "[")
        THEN Lower(Before(After(hostinfo, "["), "]"))
        ELSE Lower(Before(hostinfo, ":"))

(***************************************************************************)
(* Addresses and the resolver.  An IPv4 address is a tuple of four octets, *)
(* an IPv6 address a tuple of eight groups.                                *)
(***************************************************************************)

RECURSIVE DecValue(_)
\* int(field) for a field of decimal digits.
DecValue(f) ==
    IF f = <<>> THEN 0
    ELSE 10 * DecValue(Slice(f, 1, Len(f) - 1))
           + (CHOOSE d \in 0..9 : ToString(d) = f[Len(f)])

RECURSIVE SplitDot(_)
\* s.split('.')
SplitDot(s) ==
    IF Find(s, ".") = 0 THEN <<s>>
    ELSE <<Before(s, ".")>> \o SplitDot(After(s, "."))

IsDecField(f) == Len(f) \in 1..3 /\ (\A i \in 1..Len(f) : f[i] \in Digits) /\ DecValue(f) <= 255

\* A dotted-quad literal a.b.c.d.
IsIPv4Literal(h) ==
    /\ Len(SplitDot(h)) = 4
    /\ \A i \in 1..4 : IsDecField(SplitDot(h)[i])

IPv4Value(h) == [i \in 1..4 |-> DecValue(SplitDot(h)[i])]

\* The idna encoding of the name fails: a label other than a trailing one
\* is empty.
HasEmptyLabel(h) ==
    \E i \in 1..Len(h) : h[i] = "." /\ (i = 1 \/ h[i - 1] = ".")

\* The A records of the names of the modelled network.
KnownNames ==
    { <<"p", "u", "b">>, <<"l", "o">>, <<"i", "n">>, <<"l", "l">> }

\* The answer the name service gives for each known name at this moment:
\* its addresses, in the order of the answer.
VARIABLE dns

ARecord(h) ==
    CASE h = <<"p", "u", "b">> -> <<93, 184, 216, 34>>
      [] h = <<"l", "o">> -> <<127, 0, 0, 1>>
      [] h = <<"i", "n">> -> <<10, 0, 0, 5>>
      [] h = <<"l", "l">> -> <<169, 254, 1, 1>>

\* The answers of a name service that gives each known name one address.
DnsTable == [h \in KnownNames |-> <<ARecord(h)>>]

\* socket.gethostbyname(hostname): the first IPv4 address of the answer, or
\* the exception.
gethostbyname(h) ==
    IF HasEmptyLabel(h)
    THEN [ok |-> FALSE, type |-> "UnicodeError",
          msg |-> <<"encoding with 'idna' codec failed (UnicodeError: label empty or too long)">>]
    ELSE IF h = <<>> THEN [ok |-> TRUE, ip |-> <<0, 0, 0, 0>>]
    ELSE IF IsIPv4Literal(h) THEN [ok |-> TRUE, ip |-> IPv4Value(h)]
    ELSE IF h \in KnownNames THEN [ok |-> TRUE, ip |-> dns[h][1]]
    ELSE [ok |-> FALSE, type |-> "gaierror",
          msg |-> <<"[Errno -2] Name or service not known">>]

\* The addresses a connection to host h may go to (getaddrinfo: IPv4 and
\* IPv6); empty when the name does not resolve.
ConnectAddresses(h) ==
    IF h \in IPv6Literals THEN {IPv6Value(h)}
    ELSE IF HasEmptyLabel(h) \/ h = <<>> THEN {}
    ELSE IF IsIPv4Literal(h) THEN {IPv4Value(h)}
    ELSE IF h \in KnownNames THEN { dns[h][i] : i \in 1..Len(dns[h]) }
    ELSE {}

\* ipaddress.ip_address(ip) succeeds.
IsValidAddress(ip) ==
    \/ Len(ip) = 4 /\ \A i \in 1..4 : ip[i] \in 0..255
    \/ Len(ip) = 8 /\ \A i \in 1..8 : ip[i] \in 0..65535

is_loopback(ip) ==
    IF Len(ip) = 4 THEN ip[1] = 127
    ELSE ip = <<0, 0, 0, 0, 0, 0, 0, 1>>

is_link_local(ip) ==
    IF Len(ip) = 4 THEN ip[1] = 169 /\ ip[2] = 254
    ELSE ip[1] \in 65152..65215

\* IPv4Address.is_private / IPv6Address.is_private: the address lies in one
\* of the networks of the module's private list.
is_private(ip) ==
    IF Len(ip) = 4
    THEN \/ ip[1] = 0
         \/ ip[1] = 10
         \/ ip[1] = 127
         \/ ip[1] = 169 /\ ip[2] = 254
         \/ ip[1] = 172 /\ ip[2] \in 16..31
         \/ ip[1] = 192 /\ ip[2] = 0 /\ ip[3] = 0 /\ ip[4] \in 0..7
         \/ ip[1] = 192 /\ ip[2] = 0 /\ ip[3] = 0 /\ ip[4] \in 170..171
         \/ ip[1] = 192 /\ ip[2] = 0 /\ ip[3] = 2
         \/ ip[1] = 192 /\ ip[2] = 168
         \/ ip[1] = 198 /\ ip[2] \in 18..19
         \/ ip[1] = 198 /\ ip[2] = 51 /\ ip[3] = 100
         \/ ip[1] = 203 /\ ip[2] = 0 /\ ip[3] = 113
         \/ ip[1] \in 240..255
    ELSE \/ ip = <<0, 0, 0, 0, 0, 0, 0, 1>>
         \/ ip = <<0, 0, 0, 0, 0, 0, 0, 0>>
         \/ ip[1] \in 64512..65023
         \/ ip[1] \in 65152..65215
         \/ ip[1] = 8193 /\ ip[2] = 3512

\* The test of line 43.
IsBlocked(ip) == is_private(ip) \/ is_loopback(ip) \/ is_link_local(ip)

(***************************************************************************)
(* The URL strings a user may type: scheme, separator, userinfo, host,     *)
(* port and path pieces, concatenated into one string.                     *)
(***************************************************************************)

SchemeTexts ==
    { <<>>,
      <<"h", "t", "t", "p">>, <<"H", "T", "T", "P">>,
      <<"h", "t", "t", "p", "s">>, <<"H", "t", "t", "p", "S">>,
      <<"f", "t", "p">>, <<"f", "i", "l", "e">>,
      <<"g", "o", "p", "h", "e", "r">> }

SepTexts == { <<>>, <<":">>, <<":", "/", "/">> }

UserinfoTexts == { <<>>, <<"u", "@">>, <<"p", "u", "b", ":", "x", "@">> }

HostTexts ==
    { <<>>,
      <<"p", "u", "b">>, <<"l", "o">>, <<"i", "n">>, <<"l", "l">>,
      <<"n", "x">>, <<".", "a">>,
      <<"1", "0", ".", "0", ".", "0", ".", "5">>,
      <<"[", ":", ":", "1", "]">>, <<"[">> }

PortTexts == { <<>>, <<":", "8", "0">> }

PathTexts == { <<>>, <<"/", "p">> }

\* http(s) URLs with every authority, and every scheme and separator with
\* a few authorities.
Urls ==
    { sch \o <<":", "/", "/">> \o ui \o host \o port \o path :
        sch \in { <<"h", "t", "t", "p">>, <<"H", "t", "t", "p", "S">> },
        ui \in UserinfoTexts, host \in HostTexts, port \in PortTexts,
        path \in PathTexts }
    \cup
    { sch \o sep \o host \o path :
        sch \in SchemeTexts, sep \in SepTexts,
        host \in { <<>>, <<"p", "u", "b">>, <<"[">> }, path \in PathTexts }

(***************************************************************************)
(* Messages of is_safe_url.                                                *)
(***************************************************************************)

\* A rejection that carries no text.
SchemeReason_Empty == <<>>

SchemeReason == <<"Only HTTP and HTTPS protocols are allowed">>

NoHostnameReason == <<"Invalid URL: no hostname found">>

ResolveReason(h) == <<"Cannot resolve hostname: ">> \o h

PrivateReason == <<"Access to private/internal IP addresses is not allowed">>

BadAddressReason == <<"Invalid IP address">>

InvalidUrlReason(msg) == <<"Invalid URL: ">> \o msg

AllowedSchemes == { <<"h", "t", "t", "p">>, <<"h", "t", "t", "p", "s">> }

\* A handler that matches the exact type only, not its subclasses.
IsInstance_ExactType(type, cls) == type = cls

\* isinstance(e, cls) for the exception types that occur.
IsInstance(type, cls) ==
    CASE cls = "Exception" -> type \in {"ValueError", "UnicodeError", "gaierror"}
      [] cls = "ValueError" -> type \in {"ValueError", "UnicodeError"}
      [] cls = "gaierror" -> type = "gaierror"
      [] OTHER -> FALSE

NoException == [type |-> "none", msg |-> <<>>]

NoParse == [ok |-> FALSE, scheme |-> <<>>, netloc |-> <<>>]

NoResult == [is_safe |-> FALSE, reason |-> <<>>]

(***************************************************************************)
(* State.                                                                  *)
(***************************************************************************)

VARIABLES
    pc,            \* position of the running script / call
    caller,        \* "app": the web-summary script, "direct": a plain call
    url,           \* the text of the URL field / the argument of the call
    click,         \* the Summarize button was pressed for this run
    buttonShown,   \* the last run rendered the Summarize button
    parsed,        \* urlparse(url)
    hostname,      \* parsed.netloc.split(':')[0]
    ip,            \* the resolved address, <<>> before resolution
    exc,           \* the exception in flight
    result,        \* the (is_safe, reason) pair returned
    steps,         \* the steps of is_safe_url executed in this call
    resolverCalls, \* number of gethostbyname calls in this call
    validated,     \* the (url, is_safe) pairs is_safe_url returned in this run
    fetched,       \* the url arguments of fetch_web_content in this run
    connected,     \* the addresses this run's fetch connected to
    shown          \* the texts this run displayed

\* The state of the timestamp formatters and of the segment exporter.
VARIABLES
    seconds,       \* the argument of the timestamp formatters
    tsSrt,         \* format_timestamp_srt(seconds), <<>> before the call
    tsVtt,         \* format_timestamp_vtt(seconds), <<>> before the call
    tsSub          \* format_timestamp(seconds) of the subtitle tool

webVars ==
    << pc, caller, url, click, buttonShown, parsed, hostname, ip, exc, result,
       steps, resolverCalls, validated, fetched, connected, shown >>

\* The transcript an app holds (segments, language), the position of the
\* results display of the transcription app, and the text each generator
\* call returned: the preview, the five downloads, and the SRT of the
\* subtitle tool.
VARIABLES
    segments, language, xpc,
    full_text, plain_text, timestamped_text, srt_text, vtt_text, json_text,
    subtitle_srt

timeVars == << seconds, tsSrt, tsVtt, tsSub >>

outVars == << full_text, plain_text, timestamped_text, srt_text, vtt_text, json_text >>

exportVars == << segments, language, xpc, outVars, subtitle_srt >>

netVars == << dns >>

\* The requests of the three Whisper tools (audio summary, transcription,
\* subtitles) in one process.
VARIABLES
    wpc,                  \* position of the running request, "idle" between requests
    tool,                 \* the tool whose button was pressed
    whisper_model_name,   \* the Whisper model the sidebar passes to the tool
    upload,               \* the name of the uploaded file
    loads,                \* whisper.load_model calls so far, per model name
    cache,                \* per tool: the model names st.cache_resource holds
    held,                 \* the model names of which the process holds a handle
    tempFile,             \* this request's temporary file: "none", "exists", "removed"
    audio_path,           \* the path variable has been assigned
    removeFailed,         \* os.remove raised and the warning was logged
    failed,               \* the except clause of this request ran
    transcription,        \* what model.transcribe returned in this request
    transcription_result, \* st.session_state.transcription_result
    completed,            \* the results of the transcriptions that succeeded
    requests,             \* number of requests so far
    stored_before         \* the stored result when this request began

whisperVars ==
    << wpc, tool, whisper_model_name, upload, loads, cache, held, tempFile,
       audio_path, removeFailed, failed, transcription, transcription_result,
       completed, requests, stored_before >>

\* The configuration: the environment, the attributes of Config, the
\* warnings logged, and the Whisper model the sidebar pre-selects.
VARIABLES
    cpc,             \* "import", "validate", "sidebar", "done"
    env,             \* the environment variables MODEL_NAME and WHISPER_MODEL
    MODEL_NAME,      \* Config.MODEL_NAME
    WHISPER_MODEL,   \* Config.WHISPER_MODEL
    warnings,        \* the warnings Config.validate logged
    validated_ok,    \* what Config.validate returned ("none" before)
    whisper_default  \* the option the sidebar selectbox starts with

configVars ==
    << cpc, env, MODEL_NAME, WHISPER_MODEL, warnings, validated_ok, whisper_default >>

nonWebVars == << timeVars, exportVars, netVars, whisperVars, configVars >>

nonTimeVars == << webVars, exportVars, netVars, whisperVars, configVars >>

nonExportVars == << webVars, timeVars, netVars, whisperVars, configVars >>

nonNetVars == << webVars, timeVars, exportVars, whisperVars, configVars >>

nonWhisperVars == << webVars, timeVars, exportVars, netVars, configVars >>

nonConfigVars == << webVars, timeVars, exportVars, netVars, whisperVars >>

vars == << webVars, nonWebVars >>

callVars == << parsed, hostname, ip, exc, result, steps, resolverCalls >>

runVars == << validated, fetched, connected, shown >>

\* No timestamp is being formatted.
TimeIdle ==
    /\ seconds = [int |-> 0, frac |-> <<0, 0, 0, 0>>]
    /\ tsSrt = <<>>
    /\ tsVtt = <<>>
    /\ tsSub = <<>>

\* No script run and no call of is_safe_url is in progress.
WebIdle ==
    /\ pc = "idle"
    /\ caller = "app"
    /\ url = <<>>
    /\ click = FALSE
    /\ buttonShown = FALSE
    /\ parsed = NoParse
    /\ hostname = <<>>
    /\ ip = <<>>
    /\ exc = NoException
    /\ result = NoResult
    /\ steps = <<>>
    /\ resolverCalls = 0
    /\ validated = {}
    /\ fetched = <<>>
    /\ connected = {}
    /\ shown = <<>>

\* A generator that has not been called.
NotCalled == [called |-> FALSE, raised |-> FALSE, value |-> <<>>, error |-> <<>>]

\* No transcription result is in the session.
ExportIdle ==
    /\ segments = <<>>
    /\ language = <<>>
    /\ xpc = "idle"
    /\ full_text = NotCalled
    /\ plain_text = NotCalled
    /\ timestamped_text = NotCalled
    /\ srt_text = NotCalled
    /\ vtt_text = NotCalled
    /\ json_text = NotCalled
    /\ subtitle_srt = NotCalled

\* The name service gives the answers of the table.
NetIdle == dns = DnsTable

\* The Whisper model names of the requests.
ModelNames == {"base", "small"}

\* The tools that load the model through a cached load_whisper_model.
CachingTools == {"transcribe", "subtitles"}

\* No transcription result in the session, no result of model.transcribe.
NoTranscription ==
    [present |-> FALSE, segments |-> <<>>, language |-> <<>>, filename |-> <<>>]

\* A fresh process: nothing loaded, no request made.
WhisperIdle ==
    /\ wpc = "idle"
    /\ tool = "none"
    /\ whisper_model_name = "base"
    /\ upload = <<>>
    /\ loads = [m \in ModelNames |-> 0]
    /\ cache = [t \in CachingTools |-> {}]
    /\ held = {}
    /\ tempFile = "none"
    /\ audio_path = FALSE
    /\ removeFailed = FALSE
    /\ failed = FALSE
    /\ transcription = NoTranscription
    /\ transcription_result = NoTranscription
    /\ completed = {}
    /\ requests = 0
    /\ stored_before = NoTranscription

\* An environment variable that is not set.
Unset == [set |-> FALSE, value |-> ""]

\* The configuration module has not been imported.
ConfigIdle ==
    /\ cpc = "import"
    /\ env = [MODEL_NAME |-> Unset, WHISPER_MODEL |-> Unset]
    /\ MODEL_NAME = ""
    /\ WHISPER_MODEL = ""
    /\ warnings = <<>>
    /\ validated_ok = "none"
    /\ whisper_default = ""

Init == WebIdle /\ TimeIdle /\ ExportIdle /\ NetIdle /\ WhisperIdle /\ ConfigIdle

\* The locals of a fresh call of is_safe_url.
FreshCall ==
    /\ parsed' = NoParse
    /\ hostname' = <<>>
    /\ ip' = <<>>
    /\ exc' = NoException
    /\ result' = NoResult
    /\ steps' = <<>>
    /\ resolverCalls' = 0

\* A fresh run of the script: nothing validated, fetched or shown yet.
FreshRun ==
    /\ validated' = {}
    /\ fetched' = <<>>
    /\ connected' = {}
    /\ shown' = <<>>

(***************************************************************************)
(* The runs of the web-summary script (create_web_summary_app) and plain   *)
(* calls of is_safe_url.                                                   *)
(***************************************************************************)

EnterUrlText == << <<"Enter a URL above to get started">> >>

InvalidUrlTexts(reason) ==
    << <<"Invalid URL">>,
       <<"Reason: ">> \o reason,
       <<"Please enter a valid public HTTP or HTTPS URL. Private/internal URLs are blocked for security.">> >>

\* The user edits the URL field: the script runs from the top with the new
\* text and the button not pressed.  An empty field takes the else branch
\* of "if url:" and the run ends; otherwise is_safe_url(url) is called.
UserEntersUrl(u) ==
    /\ UNCHANGED nonWebVars
    /\ pc = "idle"
    /\ url' = u
    /\ click' = FALSE
    /\ caller' = "app"
    /\ FreshCall
    /\ validated' = {}
    /\ fetched' = <<>>
    /\ connected' = {}
    /\ IF u = <<>>
       THEN /\ pc' = "idle"
            /\ shown' = EnterUrlText
            /\ buttonShown' = FALSE
       ELSE /\ pc' = "call"
            /\ shown' = <<>>
            /\ UNCHANGED buttonShown

\* The user presses "Summarize Website", which the previous run rendered:
\* the script runs from the top with the same URL text.
UserClicksSummarize ==
    /\ UNCHANGED nonWebVars
    /\ pc = "idle"
    /\ buttonShown
    /\ click' = TRUE
    /\ caller' = "app"
    /\ pc' = "call"
    /\ FreshCall
    /\ FreshRun
    /\ UNCHANGED << url, buttonShown >>

\* is_safe_url(u) called on its own, for any string.
DirectCall(u) ==
    /\ UNCHANGED nonWebVars
    /\ pc = "idle"
    /\ url' = u
    /\ click' = FALSE
    /\ caller' = "direct"
    /\ buttonShown' = FALSE
    /\ pc' = "call"
    /\ FreshCall
    /\ FreshRun

\* return is_safe, reason
Return(is_safe, reason) ==
    /\ result' = [is_safe |-> is_safe, reason |-> reason]
    /\ validated' = validated \cup { <<url, is_safe>> }
    /\ pc' = "returned"

\* raise: control goes to the handler of the outer try.
Raise(type, msg) ==
    /\ exc' = [type |-> type, msg |-> msg]
    /\ pc' = "except"
    /\ UNCHANGED << result, validated >>

\* Line 21: parsed = urlparse(url)
Parse ==
    /\ UNCHANGED nonWebVars
    /\ pc = "call"
    /\ steps' = Append(steps, "parse")
    /\ LET r == urlparse(url)
       IN  IF r.ok
           THEN /\ parsed' = r
                /\ pc' = "scheme"
                /\ UNCHANGED << exc, result, validated >>
           ELSE /\ Raise(r.type, r.msg)
                /\ UNCHANGED parsed
    /\ UNCHANGED << caller, url, click, buttonShown, hostname, ip, resolverCalls,
                    fetched, connected, shown >>

\* Lines 24-25: the scheme check.
CheckScheme ==
    /\ UNCHANGED nonWebVars
    /\ pc = "scheme"
    /\ steps' = Append(steps, "scheme")
    /\ IF parsed.scheme \notin AllowedSchemes
       THEN Return(FALSE, SchemeReason)
       ELSE /\ pc' = "netloc"
            /\ UNCHANGED << result, validated >>
    /\ UNCHANGED << caller, url, click, buttonShown, parsed, hostname, ip, exc,
                    resolverCalls, fetched, connected, shown >>

\* Lines 28-32: the netloc check and the extraction of the hostname.
CheckNetloc ==
    /\ UNCHANGED nonWebVars
    /\ pc = "netloc"
    /\ steps' = Append(steps, "host")
    /\ IF parsed.netloc = <<>>
       THEN /\ Return(FALSE, NoHostnameReason)
            /\ UNCHANGED hostname
       ELSE /\ hostname' = ExtractHostname(parsed.netloc)
            /\ pc' = "resolve"
            /\ UNCHANGED << result, validated >>
    /\ UNCHANGED << caller, url, click, buttonShown, parsed, ip, exc,
                    resolverCalls, fetched, connected, shown >>

\* Lines 35-38: the lookup; gaierror is handled here, any other exception
\* leaves the inner try.
Resolve ==
    /\ UNCHANGED nonWebVars
    /\ pc = "resolve"
    /\ steps' = Append(steps, "resolve")
    /\ resolverCalls' = resolverCalls + 1
    /\ LET r == gethostbyname(hostname)
       IN  IF r.ok
           THEN /\ ip' = r.ip
                /\ pc' = "classify"
                /\ UNCHANGED << exc, result, validated >>
           ELSE IF IsInstance(r.type, "gaierror")
           THEN /\ Return(FALSE, ResolveReason(hostname))
                /\ UNCHANGED << ip, exc >>
           ELSE /\ Raise(r.type, r.msg)
                /\ UNCHANGED ip
    /\ UNCHANGED << caller, url, click, buttonShown, parsed, hostname,
                    fetched, connected, shown >>

\* Lines 41-48: the classification of the resolved address.
Classify ==
    /\ UNCHANGED nonWebVars
    /\ pc = "classify"
    /\ steps' = Append(steps, "classify")
    /\ IF ~IsValidAddress(ip) THEN Return(FALSE, BadAddressReason)
       ELSE IF IsBlocked(ip) THEN Return(FALSE, PrivateReason)
       ELSE Return(TRUE, <<>>)
    /\ UNCHANGED << caller, url, click, buttonShown, parsed, hostname, ip, exc,
                    resolverCalls, fetched, connected, shown >>

\* Lines 50-51: except Exception as e: return False, f"Invalid URL: {str(e)}".
\* An exception the handler does not catch leaves the function.
OuterExcept ==
    /\ UNCHANGED nonWebVars
    /\ pc = "except"
    /\ IF IsInstance(exc.type, "Exception")
       THEN Return(FALSE, InvalidUrlReason(exc.msg))
       ELSE /\ pc' = "raised"
            /\ UNCHANGED << result, validated >>
    /\ UNCHANGED << caller, url, click, buttonShown, parsed, hostname, ip, exc,
                    steps, resolverCalls, fetched, connected, shown >>

\* The plain call is over.
DirectReturn ==
    /\ UNCHANGED nonWebVars
    /\ pc = "returned"
    /\ caller = "direct"
    /\ pc' = "idle"
    /\ UNCHANGED << caller, url, click, buttonShown, callVars, runVars >>

\* The script without the early return: the button is rendered and the
\* fetch reached whatever is_safe_url returned.
AfterValidation_IgnoresResult ==
    /\ UNCHANGED nonWebVars
    /\ pc = "returned"
    /\ caller = "app"
    /\ buttonShown' = TRUE
    /\ pc' = IF click THEN "fetch" ELSE "idle"
    /\ UNCHANGED << caller, url, click, callVars, validated, fetched, connected, shown >>

\* Lines 69-76 of the script: a rejected URL shows the reason and ends the
\* run; an accepted one renders the button, and the run goes on to the
\* fetch when the button was pressed.
AfterValidation ==
    /\ UNCHANGED nonWebVars
    /\ pc = "returned"
    /\ caller = "app"
    /\ IF ~result.is_safe
       THEN /\ shown' = InvalidUrlTexts(result.reason)
            /\ buttonShown' = FALSE
            /\ pc' = "idle"
       ELSE /\ buttonShown' = TRUE
            /\ pc' = IF click THEN "fetch" ELSE "idle"
            /\ UNCHANGED shown
    /\ UNCHANGED << caller, url, click, callVars, validated, fetched, connected >>

\* The download connects to the address is_safe_url classified, without
\* resolving the host again.
Fetch_PinnedAddress ==
    /\ UNCHANGED nonWebVars
    /\ pc = "fetch"
    /\ fetched' = Append(fetched, url)
    /\ connected' = connected \cup {ip}
    /\ shown' = << <<"Downloading webpage content...">>,
                   <<"Generating AI summary...">>,
                   <<"Summary generated successfully!">> >>
    /\ pc' = "idle"
    /\ UNCHANGED << caller, url, click, buttonShown, callVars, validated >>

\* Lines 80-81 and fetch_web_content: the article is downloaded from the
\* host of the URL, which the download resolves itself; a host without an
\* address makes the download fail and the error is shown.
Fetch ==
    /\ UNCHANGED nonWebVars
    /\ pc = "fetch"
    /\ fetched' = Append(fetched, url)
    /\ LET addrs == ConnectAddresses(FetchHost(NetlocOf(url)))
       IN  IF addrs = {}
           THEN /\ connected' = connected
                /\ shown' = << <<"Downloading webpage content...">>,
                               <<"Processing Error">> >>
           ELSE /\ \E a \in addrs : connected' = connected \cup {a}
                /\ shown' = << <<"Downloading webpage content...">>,
                               <<"Generating AI summary...">>,
                               <<"Summary generated successfully!">> >>
    /\ pc' = "idle"
    /\ UNCHANGED << caller, url, click, buttonShown, callVars, validated >>

Next ==
    \/ \E u \in Urls : UserEntersUrl(u)
    \/ UserClicksSummarize
    \/ \E u \in Urls : DirectCall(u)
    \/ Parse
    \/ CheckScheme
    \/ CheckNetloc
    \/ Resolve
    \/ Classify
    \/ OuterExcept
    \/ DirectReturn
    \/ AfterValidation
    \/ Fetch

Spec == Init /\ [][Next]_vars

(***************************************************************************)
(* Properties of the URL validator and of the web-summary flow.            *)
(***************************************************************************)

\* The call of is_safe_url has just returned.
Returned == pc = "returned"

\* The URL was parsed and its scheme passed the scheme check.
IsWebUrl == parsed.ok /\ parsed.scheme \in AllowedSchemes

\* The host of the URL's authority: what a fetch of the URL connects to.
UrlHost == FetchHost(NetlocOf(url))

\* Strings a and b are equal when letter case is ignored.
EqualsIgnoringCase(a, b) ==
    Len(a) = Len(b) /\ \A i \in 1..Len(a) : LowerOf(a[i]) = LowerOf(b[i])

\* The scheme as the user typed it: the text before the first ':'.
TypedScheme == IF HasScheme(url) THEN Slice(url, 1, Find(url, ":") - 1) ELSE <<>>

TypedSchemeIsHttp ==
    \E a \in AllowedSchemes : EqualsIgnoringCase(TypedScheme, a)

\* C1: is_safe_url returns is_safe=true only if the host a fetch of the
\* same URL string connects to (the authority's host, after any userinfo
\* and without the port) has no private, loopback or link-local address;
\* in particular 'http://<public-name>:<x>@<internal-host>/' is rejected.
C1_SafeOnlyIfFetchHostPublic ==
    (Returned /\ result.is_safe) =>
        \A a \in ConnectAddresses(UrlHost) : ~IsBlocked(a)

\* C2: in every run of the web-summary script, fetch_web_content(url) is
\* called only after is_safe_url returned is_safe=true for the same url in
\* that run; a rejection ends the run without a fetch and the reason is
\* shown verbatim.
C2_FetchOnlyAfterValidation ==
    /\ \A i \in 1..Len(fetched) : <<fetched[i], TRUE>> \in validated
    /\ pc = "fetch" => <<url, TRUE>> \in validated
    /\ (caller = "app" /\ \E v \in validated : ~v[2]) =>
          /\ fetched = <<>>
          /\ connected = {}
          /\ pc # "fetch"
          /\ pc = "idle" =>
                /\ Len(shown) >= 2
                /\ shown[2] = <<"Reason: ">> \o result.reason

\* A run of the script has fetched the URL it validated.
C2_Witness ==
    /\ pc = "idle"
    /\ caller = "app"
    /\ fetched = <<url>>
    /\ connected # {}

\* C3: for every http/https URL whose hostname resolves to a private-use,
\* loopback or link-local address (127.0.0.1, 10.0.0.5, 169.254.1.1, ::1),
\* is_safe_url returns is_safe=false with the private/internal reason.
C3_PrivateHostRejected ==
    (Returned /\ IsWebUrl /\ \E a \in ConnectAddresses(UrlHost) : IsBlocked(a)) =>
        result = [is_safe |-> FALSE, reason |-> PrivateReason]

\* C4: whenever the hostname lookup fails, for whatever cause, the call
\* returns is_safe=false with the reason of the resolution failure, after
\* exactly one lookup.
C4_LookupFailureReason ==
    (Returned /\ resolverCalls > 0 /\ ~gethostbyname(hostname).ok) =>
        /\ resolverCalls = 1
        /\ result = [is_safe |-> FALSE, reason |-> ResolveReason(hostname)]

\* C5: the scheme passes the scheme step exactly when the typed scheme is
\* http or https compared case-insensitively; a parsed URL with any other
\* scheme, or with none, is rejected with the scheme/protocol reason.
C5_SchemeCheck ==
    /\ (pc \in {"netloc", "resolve", "classify"}) => TypedSchemeIsHttp
    /\ (Returned /\ parsed.ok) =>
          /\ TypedSchemeIsHttp => Len(steps) > 2
          /\ ~TypedSchemeIsHttp =>
                result = [is_safe |-> FALSE, reason |-> SchemeReason]

\* An 'HttpS://' URL has passed the scheme step and been accepted.
C5_Witness ==
    /\ Returned
    /\ TypedScheme = <<"H", "t", "t", "p", "S">>
    /\ result.is_safe

\* C6: for every http/https URL whose host component is absent or empty
\* ('http://', 'http:///path', 'http://:80/'), is_safe_url returns
\* is_safe=false with the 'no hostname' reason before any resolution.
C6_EmptyHostRejected ==
    (Returned /\ IsWebUrl /\ UrlHost = <<>>) =>
        /\ result = [is_safe |-> FALSE, reason |-> NoHostnameReason]
        /\ resolverCalls = 0

\* C7: for an http/https URL with a non-empty hostname that resolves to a
\* public address, is_safe_url returns exactly (True, "").
C7_PublicHostAccepted ==
    (/\ Returned
     /\ IsWebUrl
     /\ UrlHost # <<>>
     /\ ConnectAddresses(UrlHost) # {}
     /\ \A a \in ConnectAddresses(UrlHost) : ~IsBlocked(a)) =>
        result = [is_safe |-> TRUE, reason |-> <<>>]

\* C8: in every result of is_safe_url the reason is the empty string if
\* and only if is_safe is true.
C8_ReasonEmptyIffSafe ==
    Returned => (result.reason = <<>> <=> result.is_safe)

\* A rejection with its reason has been returned.
C8_Witness ==
    /\ Returned
    /\ ~result.is_safe
    /\ result.reason = PrivateReason

StepOrder == <<"parse", "scheme", "host", "resolve", "classify">>

\* The rejection reasons that belong to each step of the algorithm.
IsReasonOfStep(reason, step) ==
    CASE step = "parse" -> reason # <<>> /\ reason[1] = "Invalid URL: "
      [] step = "scheme" -> reason = SchemeReason
      [] step = "host" -> reason = NoHostnameReason
      [] step = "resolve" -> reason # <<>> /\ reason[1] = "Cannot resolve hostname: "
      [] step = "classify" -> reason \in {PrivateReason, BadAddressReason}
      [] OTHER -> FALSE

\* C9: the steps run in the order parse, scheme, host presence, resolution,
\* classification and stop at the first that fails: a rejection carries
\* the reason of the step that failed, and the resolver is never called
\* for a URL that fails the scheme or the host-presence step.
C9_StepOrderAndReason ==
    /\ Len(steps) <= Len(StepOrder)
    /\ \A i \in 1..Len(steps) : steps[i] = StepOrder[i]
    /\ (Returned /\ ~result.is_safe) =>
          IsReasonOfStep(result.reason, steps[Len(steps)])
    /\ (parsed.ok /\ (~IsWebUrl \/ UrlHost = <<>>)) => resolverCalls = 0

\* C10: for every input string is_safe_url returns a (bool, string) pair
\* and never raises; input the parser rejects yields is_safe=false with
\* the 'Invalid URL' reason that includes the parser's message.
C10_NeverRaises ==
    /\ pc # "raised"
    /\ Returned =>
          /\ result.is_safe \in BOOLEAN
          /\ result.reason \in Seq(STRING)
    /\ (Returned /\ NetlocError(NetlocOf(url)) # <<>>) =>
          result = [is_safe |-> FALSE,
                    reason |-> <<"Invalid URL: ">> \o NetlocError(NetlocOf(url))]

\* A string the parser rejects has been given a result.
C10_Witness ==
    /\ Returned
    /\ NetlocError(NetlocOf(url)) = <<"Invalid IPv6 URL">>
    /\ steps = <<"parse">>

(***************************************************************************)
(* Timestamps (whisper_transcribe_app.py).  A seconds value is a Python    *)
(* float, an IEEE double: here its integer part and its fractional part,   *)
(* the latter as the numerator over 2^64 in four 16-bit limbs, most        *)
(* significant first.  The doubles below are those the literals 0.0,       *)
(* 0.001, 0.009, 0.011, 0.5, 0.999, 0.9995, 1.001, 1.9995, 2.56, 4.35,     *)
(* 5.12, 7.0, 9.999, 12.015, 30.013, 59.999, 59.9995, 60.0, 61.5, 119.5,   *)
(* 599.75, 3599.999, 3599.9995, 3600.0, 3661.5, 3723.004, 7199.25,         *)
(* 35999.999, 86399.999, 359999.5 and 360000.0 denote.                     *)
(***************************************************************************)

Seconds ==
    {
      [int |-> 0, frac |-> <<0, 0, 0, 0>>],
      [int |-> 0, frac |-> <<65, 35127, 19398, 42992>>],
      [int |-> 0, frac |-> <<589, 54001, 43515, 59232>>],
      [int |-> 0, frac |-> <<720, 58720, 16777, 14144>>],
      [int |-> 0, frac |-> <<32768, 0, 0, 0>>],
      [int |-> 0, frac |-> <<65470, 30408, 46137, 22528>>],
      [int |-> 0, frac |-> <<65503, 15204, 23068, 45056>>],
      [int |-> 1, frac |-> <<65, 35127, 19398, 40960>>],
      [int |-> 1, frac |-> <<65503, 15204, 23068, 45056>>],
      [int |-> 2, frac |-> <<36700, 10485, 49807, 24576>>],
      [int |-> 4, frac |-> <<22937, 39321, 39321, 32768>>],
      [int |-> 5, frac |-> <<7864, 20971, 34078, 49152>>],
      [int |-> 7, frac |-> <<0, 0, 0, 0>>],
      [int |-> 9, frac |-> <<65470, 30408, 46137, 32768>>],
      [int |-> 12, frac |-> <<983, 2621, 28836, 0>>],
      [int |-> 30, frac |-> <<851, 63438, 55575, 0>>],
      [int |-> 59, frac |-> <<65470, 30408, 46138, 0>>],
      [int |-> 59, frac |-> <<65503, 15204, 23068, 0>>],
      [int |-> 60, frac |-> <<0, 0, 0, 0>>],
      [int |-> 61, frac |-> <<32768, 0, 0, 0>>],
      [int |-> 119, frac |-> <<32768, 0, 0, 0>>],
      [int |-> 599, frac |-> <<49152, 0, 0, 0>>],
      [int |-> 3599, frac |-> <<65470, 30408, 46080, 0>>],
      [int |-> 3599, frac |-> <<65503, 15204, 23040, 0>>],
      [int |-> 3600, frac |-> <<0, 0, 0, 0>>],
      [int |-> 3661, frac |-> <<32768, 0, 0, 0>>],
      [int |-> 3723, frac |-> <<262, 9437, 12032, 0>>],
      [int |-> 7199, frac |-> <<16384, 0, 0, 0>>],
      [int |-> 35999, frac |-> <<65470, 30408, 47104, 0>>],
      [int |-> 86399, frac |-> <<65470, 30408, 45056, 0>>],
      [int |-> 359999, frac |-> <<32768, 0, 0, 0>>],
      [int |-> 360000, frac |-> <<0, 0, 0, 0>>]
    }

\* Significand width of a double.
Precision == 53

\* The 16 bits of a limb, least significant first.
LimbBits(l) == [i \in 1..16 |-> (l \div (2 ^ (i - 1))) % 2]

RECURSIVE LimbsToBits(_)
\* The bits of a number given by its limbs, least significant limb first.
LimbsToBits(ls) ==
    IF ls = <<>> THEN <<>> ELSE LimbBits(Head(ls)) \o LimbsToBits(Tail(ls))

RECURSIVE MulLimbs(_, _, _)
\* The limbs (least significant first) times k, plus carry.
MulLimbs(ls, k, carry) ==
    IF ls = <<>> THEN <<carry>>
    ELSE LET v == Head(ls) * k + carry
         IN  <<v % 65536>> \o MulLimbs(Tail(ls), k, v \div 65536)

Reverse(q) == [i \in 1..Len(q) |-> q[Len(q) + 1 - i]]

\* The exact product (s % 1) * 1000 as bits, least significant first; the
\* binary point lies after bit 64.
ProductBits(frac) == LimbsToBits(MulLimbs(Reverse(frac), 1000, 0))

\* Position of the highest set bit, 0 for zero.
HighBit(bits) ==
    IF \E i \in 1..Len(bits) : bits[i] = 1
    THEN CHOOSE i \in 1..Len(bits) : bits[i] = 1 /\ \A j \in (i + 1)..Len(bits) : bits[j] = 0
    ELSE 0

RECURSIVE BitsValue(_)
\* The number a short bit sequence denotes.
BitsValue(bits) ==
    IF bits = <<>> THEN 0 ELSE Head(bits) + 2 * BitsValue(Tail(bits))

RECURSIVE Increment(_)
\* bits + 1
Increment(bits) ==
    IF bits = <<>> THEN <<1>>
    ELSE IF Head(bits) = 0 THEN <<1>> \o Tail(bits)
    ELSE <<0>> \o Increment(Tail(bits))

\* The result of a floating-point operation whose exact value is bits:
\* rounded to Precision significant bits, ties to even.
RoundToDouble(bits) ==
    LET top == HighBit(bits)
        drop == top - Precision
    IN  IF drop <= 0 THEN bits
        ELSE LET kept == SubSeq(bits, drop + 1, top)
                 half == bits[drop] = 1
                 sticky == \E i \in 1..(drop - 1) : bits[i] = 1
                 up == half /\ (sticky \/ kept[1] = 1)
             IN  [i \in 1..drop |-> 0] \o (IF up THEN Increment(kept) ELSE kept)

\* int(x): the bits above the binary point.
IntegerPart(bits) == BitsValue(Slice(bits, 65, Len(bits)))

\* int(seconds // 3600)
Hours(s) == s.int \div 3600

\* int((seconds % 3600) // 60)
Minutes(s) == (s.int % 3600) \div 60

\* int(seconds % 60)
Secs(s) == s.int % 60

\* round((seconds % 1) * 1000): the nearest millisecond instead of int().
Millis_Nearest(s) ==
    LET p == RoundToDouble(ProductBits(s.frac))
    IN  IntegerPart(p) + p[64]

\* int((seconds % 1) * 1000): the product is a double, int() truncates it.
Millis(s) == IntegerPart(RoundToDouble(ProductBits(s.frac)))

RECURSIVE DecChars(_)
\* str(n) for n >= 0
DecChars(n) ==
    IF n < 10 THEN <<ToString(n)>>
    ELSE DecChars(n \div 10) \o <<ToString(n % 10)>>

\* f"{n:0wd}"
ZeroPad(n, w) ==
    LET c == DecChars(n)
    IN  IF Len(c) >= w THEN c ELSE [i \in 1..(w - Len(c)) |-> "0"] \o c

\* HH:MM:SS<sep>mmm
FormatTimestamp(s, sep) ==
    ZeroPad(Hours(s), 2) \o <<":">> \o ZeroPad(Minutes(s), 2) \o <<":">>
      \o ZeroPad(Secs(s), 2) \o <<sep>> \o ZeroPad(Millis(s), 3)

format_timestamp_srt(s) == FormatTimestamp(s, ",")

format_timestamp_vtt(s) == FormatTimestamp(s, ".")

(***************************************************************************)
(* format_timestamp of the subtitle tool (whisper_srt_app.py).             *)
(***************************************************************************)

\* str(timedelta(seconds=n)): [D day[s], ]H:MM:SS
TimedeltaStr(n) ==
    LET days == n \div 86400
        rest == n % 86400
        clock == DecChars(rest \div 3600) \o <<":">> \o ZeroPad((rest % 3600) \div 60, 2)
                   \o <<":">> \o ZeroPad(rest % 60, 2)
    IN  IF days = 0 THEN clock
        ELSE DecChars(days) \o <<" ", "d", "a", "y">>
               \o (IF days = 1 THEN <<>> ELSE <<"s">>) \o <<",", " ">> \o clock

\* str(0) + str(timedelta(seconds=int(seconds))) + ',000'
format_timestamp(s) == <<"0">> \o TimedeltaStr(s.int) \o <<",", "0", "0", "0">>

\* Number of bits of a positive integer.
BitLength(n) == CHOOSE k \in 1..31 : 2 ^ (k - 1) <= n /\ (k = 31 \/ n < 2 ^ k)

\* The value has at most Precision significant bits: it is a double.
IsDouble(s) ==
    LET f == LimbsToBits(Reverse(s.frac))
        low == CHOOSE i \in 1..64 : f[i] = 1 /\ \A j \in 1..(i - 1) : f[j] = 0
        high == IF s.int = 0 THEN HighBit(f) ELSE 64 + BitLength(s.int)
    IN  HighBit(f) = 0 \/ high - low < Precision

TimeInit ==
    /\ WebIdle
    /\ ExportIdle
    /\ NetIdle
    /\ WhisperIdle
    /\ ConfigIdle
    /\ seconds \in { s \in Seconds : IsDouble(s) }
    /\ tsSrt = <<>>
    /\ tsVtt = <<>>
    /\ tsSub = <<>>

FormatTimestampSrt ==
    /\ tsSrt = <<>>
    /\ tsSrt' = format_timestamp_srt(seconds)
    /\ UNCHANGED << nonTimeVars, seconds, tsVtt, tsSub >>

FormatTimestampVtt ==
    /\ tsVtt = <<>>
    /\ tsVtt' = format_timestamp_vtt(seconds)
    /\ UNCHANGED << nonTimeVars, seconds, tsSrt, tsSub >>

\* start_time = format_timestamp(segment['start'])
FormatTimestampSubtitle ==
    /\ tsSub = <<>>
    /\ tsSub' = format_timestamp(seconds)
    /\ UNCHANGED << nonTimeVars, seconds, tsSrt, tsVtt >>

TimeNext ==
    \/ FormatTimestampSrt
    \/ FormatTimestampVtt
    \/ FormatTimestampSubtitle

TimeSpec == TimeInit /\ [][TimeNext]_vars

(***************************************************************************)
(* Properties of the timestamp formatters.                                 *)
(***************************************************************************)

\* The fields of a timestamp text HH:MM:SS<sep>mmm, as texts.
TsHours(ts) == Before(ts, ":")

TsMinutes(ts) == Before(After(ts, ":"), ":")

TsSecs(ts, sep) == Before(After(After(ts, ":"), ":"), sep)

TsMillis(ts, sep) == After(ts, sep)

\* The whole milliseconds in the fractional part of s, computed exactly:
\* the largest m with m / 1000 <= s mod 1.
ExactMillis(s) == IntegerPart(ProductBits(s.frac))

\* The double product (s mod 1) * 1000 is a whole number.
ProductRoundsToWhole(s) ==
    \A i \in 1..64 : RoundToDouble(ProductBits(s.frac))[i] = 0

\* The hours, minutes and seconds fields of ts are those of s: two-digit
\* minutes and seconds in 00..59, hours of at least two digits, a
\* three-digit millisecond field in 000..999.
FieldsOf(ts, sep, s) ==
    /\ Len(TsHours(ts)) >= 2
    /\ Len(TsMinutes(ts)) = 2
    /\ Len(TsSecs(ts, sep)) = 2
    /\ Len(TsMillis(ts, sep)) = 3
    /\ DecValue(TsMinutes(ts)) \in 0..59
    /\ DecValue(TsSecs(ts, sep)) \in 0..59
    /\ DecValue(TsMillis(ts, sep)) \in 0..999
    /\ 3600 * DecValue(TsHours(ts)) + 60 * DecValue(TsMinutes(ts))
         + DecValue(TsSecs(ts, sep)) = s.int

\* C12 as stated: the fields are floor(s/3600), floor((s mod 3600)/60),
\* floor(s mod 60) and the millisecond field is the largest whole number of
\* milliseconds not exceeding the fractional part of s.
C12_PureTruncation ==
    /\ tsSrt # <<>> =>
          /\ FieldsOf(tsSrt, ",", seconds)
          /\ DecValue(TsMillis(tsSrt, ",")) = ExactMillis(seconds)
    /\ tsVtt # <<>> =>
          /\ FieldsOf(tsVtt, ".", seconds)
          /\ DecValue(TsMillis(tsVtt, ".")) = ExactMillis(seconds)

\* The millisecond field ms is the truncation of the double product: the
\* exact whole milliseconds, or one more when the product rounds up to a
\* whole number.
IsTruncatedProduct(ms, s) ==
    \/ ms = ExactMillis(s)
    \/ ms = ExactMillis(s) + 1 /\ ProductRoundsToWhole(s)

\* C12 (amended): the fields are as stated, with no carry into the seconds
\* and millis in 000..999; the millisecond field is the truncation of the
\* double product (s mod 1) * 1000, which is the largest whole number of
\* milliseconds not exceeding the fractional part of s, or one more when
\* the multiplication rounds up to a whole number.  1.9995 gives
\* 00:00:01,999 and 0 gives 00:00:00,000 / 00:00:00.000.
C12_TruncatedDoubleProduct ==
    /\ tsSrt # <<>> =>
          /\ FieldsOf(tsSrt, ",", seconds)
          /\ IsTruncatedProduct(DecValue(TsMillis(tsSrt, ",")), seconds)
    /\ tsVtt # <<>> =>
          /\ FieldsOf(tsVtt, ".", seconds)
          /\ IsTruncatedProduct(DecValue(TsMillis(tsVtt, ".")), seconds)
    /\ (tsSrt # <<>> /\ seconds = [int |-> 1, frac |-> <<65503, 15204, 23068, 45056>>]) =>
          tsSrt = <<"0", "0", ":", "0", "0", ":", "0", "1", ",", "9", "9", "9">>
    /\ (tsSrt # <<>> /\ seconds = [int |-> 0, frac |-> <<0, 0, 0, 0>>]) =>
          tsSrt = <<"0", "0", ":", "0", "0", ":", "0", "0", ",", "0", "0", "0">>
    /\ (tsVtt # <<>> /\ seconds = [int |-> 0, frac |-> <<0, 0, 0, 0>>]) =>
          tsVtt = <<"0", "0", ":", "0", "0", ":", "0", "0", ".", "0", "0", "0">>

\* The double 0.009, which lies below 9/1000, has been formatted as
\* 00:00:00,009.
C12_Witness ==
    /\ tsSrt = <<"0", "0", ":", "0", "0", ":", "0", "0", ",", "0", "0", "9">>
    /\ tsVtt # <<>>
    /\ ExactMillis(seconds) = 8

(***************************************************************************)
(* The export generators (whisper_transcribe_app.py) and the SRT loop of   *)
(* the subtitle tool (whisper_srt_app.py).  A segment is a dict: a         *)
(* function whose domain is the set of its keys.                           *)
(***************************************************************************)

\* Characters str.strip() removes.
Whitespace == {" ", "\t", "\n", "\r"}

RECURSIVE LStrip(_)
\* str.lstrip()
LStrip(t) ==
    IF t # <<>> /\ Head(t) \in Whitespace THEN LStrip(Tail(t)) ELSE t

\* Only the leading whitespace is removed.
Strip_LeftOnly(t) == LStrip(t)

\* str.strip()
Strip(t) == Reverse(LStrip(Reverse(LStrip(t))))

RECURSIVE Join(_, _)
\* sep.join(parts)
Join(parts, sep) ==
    IF parts = <<>> THEN <<>>
    ELSE IF Len(parts) = 1 THEN parts[1]
    ELSE parts[1] \o sep \o Join(Tail(parts), sep)

RECURSIVE Concat(_)
\* The parts one after the other.
Concat(parts) == IF parts = <<>> THEN <<>> ELSE Head(parts) \o Concat(Tail(parts))

Arrow == <<" ", "-", "-", ">", " ">>

\* A call that returned value.
Returns(value) == [called |-> TRUE, raised |-> FALSE, value |-> value, error |-> <<>>]

\* A call that raised KeyError(key).
RaisesKeyError(key) ==
    [called |-> TRUE, raised |-> TRUE, value |-> <<>>, error |-> <<"KeyError", key>>]

\* The first key of keys a loop over segs, reading keys in this order from
\* each segment, does not find; "" if it finds all.
FirstMissingKey(segs, keys) ==
    LET missing(i) == { k \in 1..Len(keys) : keys[k] \notin DOMAIN segs[i] }
        bad == { i \in 1..Len(segs) : missing(i) # {} }
    IN  IF bad = {} THEN ""
        ELSE LET i == CHOOSE j \in bad : \A j2 \in bad : j <= j2
             IN  keys[CHOOSE k \in missing(i) : \A k2 \in missing(i) : k <= k2]

\* The call reads keys from every segment and then returns value.
Reading(segs, keys, value) ==
    IF FirstMissingKey(segs, keys) # ""
    THEN RaisesKeyError(FirstMissingKey(segs, keys))
    ELSE Returns(value)

\* "\n".join(seg['text'].strip() for seg in segments)
PlainText(segs) ==
    Join([i \in 1..Len(segs) |-> Strip(segs[i].text)], <<"\n">>)

generate_plain_text(segs) == Reading(segs, <<"text">>, PlainText(segs))

\* f"[{timestamp}] {text}"
TimestampedLine(seg) ==
    <<"[">> \o format_timestamp_vtt(seg.start) \o <<"]", " ">> \o Strip(seg.text)

TimestampedText(segs) ==
    Join([i \in 1..Len(segs) |-> TimestampedLine(segs[i])], <<"\n">>)

generate_timestamped_text(segs) ==
    Reading(segs, <<"start", "text">>, TimestampedText(segs))

\* A block that ends with its text line, with no blank line after it.
SrtBlock_NoBlankLine(i, seg) ==
    DecChars(i) \o <<"\n">>
      \o format_timestamp_srt(seg.start) \o Arrow \o format_timestamp_srt(seg.end)
      \o <<"\n">> \o Strip(seg.text) \o <<"\n">>

\* f"{i}\n{start} --> {end}\n{text}\n\n"
SrtBlock(i, seg) ==
    DecChars(i) \o <<"\n">>
      \o format_timestamp_srt(seg.start) \o Arrow \o format_timestamp_srt(seg.end)
      \o <<"\n">> \o Strip(seg.text) \o <<"\n", "\n">>

\* The blocks of the segments that have text, numbered among themselves.
SrtText_SkipEmpty(segs) ==
    LET kept == SelectSeq(segs, LAMBDA seg : Strip(seg.text) # <<>>)
    IN  Concat([i \in 1..Len(kept) |-> SrtBlock(i, kept[i])])

SrtText(segs) == Concat([i \in 1..Len(segs) |-> SrtBlock(i, segs[i])])

generate_srt(segs) == Reading(segs, <<"start", "end", "text">>, SrtText(segs))

\* The header line without the blank line after it.
VttHeader_NoBlankLine == <<"W", "E", "B", "V", "T", "T", "\n">>

VttHeader == <<"W", "E", "B", "V", "T", "T", "\n", "\n">>

\* A block without its index line.
VttBlock_NoLabel(i, seg) ==
    format_timestamp_vtt(seg.start) \o Arrow \o format_timestamp_vtt(seg.end)
      \o <<"\n">> \o Strip(seg.text) \o <<"\n", "\n">>

VttBlock(i, seg) ==
    DecChars(i) \o <<"\n">>
      \o format_timestamp_vtt(seg.start) \o Arrow \o format_timestamp_vtt(seg.end)
      \o <<"\n">> \o Strip(seg.text) \o <<"\n", "\n">>

VttText(segs) == VttHeader \o Concat([i \in 1..Len(segs) |-> VttBlock(i, segs[i])])

generate_vtt(segs) == Reading(segs, <<"start", "end", "text">>, VttText(segs))

(***************************************************************************)
(* The subtitle tool: the loop of lines 132-139.                           *)
(***************************************************************************)

\* text[1:] if text and text[0] == ' ' else text
StripLeadingSpace(t) == IF t # <<>> /\ t[1] = " " THEN Tail(t) ELSE t

\* One pass of the loop body: f"{segment_id}\n{start_time} --> {end_time}\n{text}\n\n"
SubtitleBlock(seg) ==
    DecChars(seg.id + 1) \o <<"\n">>
      \o format_timestamp(seg.start) \o Arrow \o format_timestamp(seg.end)
      \o <<"\n">> \o StripLeadingSpace(seg.text) \o <<"\n", "\n">>

SubtitleText(segs) == Concat([i \in 1..Len(segs) |-> SubtitleBlock(segs[i])])

\* segment_srt after the loop over transcription['segments']
SubtitleSrt(segs) == Reading(segs, <<"start", "end", "text", "id">>, SubtitleText(segs))

(***************************************************************************)
(* float repr and float(): json.dumps writes a float with float.__repr__,  *)
(* the shortest decimal that float() reads back as the same double;        *)
(* json.loads reads a number with a fraction part with float().            *)
(***************************************************************************)

RECURSIVE FractionLimbs(_, _, _)
\* The first n 16-bit limbs after the binary point of num/den (most
\* significant first), followed by 1 if anything is left and 0 if not.
FractionLimbs(num, den, n) ==
    IF n = 0 THEN <<IF num = 0 THEN 0 ELSE 1>>
    ELSE <<(65536 * num) \div den>> \o FractionLimbs((65536 * num) % den, den, n - 1)

\* The bits of n, least significant first.
IntBits(n) == IF n = 0 THEN <<>> ELSE [i \in 1..BitLength(n) |-> (n \div 2 ^ (i - 1)) % 2]

RECURSIVE BitsToLimbs(_)
\* Inverse of LimbsToBits.
BitsToLimbs(bits) ==
    IF bits = <<>> THEN <<>>
    ELSE <<BitsValue(SubSeq(bits, 1, 16))>> \o BitsToLimbs(SubSeq(bits, 17, Len(bits)))

RECURSIVE PowerOfTen(_)
PowerOfTen(k) == IF k = 0 THEN 1 ELSE 10 * PowerOfTen(k - 1)

\* float(text) for text = <digits>.<digits>: the double nearest to the
\* decimal, ties to even.
ParseFloat(intDigits, fracDigits) ==
    LET den == PowerOfTen(Len(fracDigits))
        limbs == FractionLimbs(DecValue(fracDigits), den, 4)
        exact == <<limbs[5]>> \o LimbsToBits(Reverse(SubSeq(limbs, 1, 4)))
                   \o IntBits(DecValue(intDigits))
        r == RoundToDouble(exact)
        bit(i) == IF i <= Len(r) THEN r[i] ELSE 0
    IN  [int |-> IF Len(r) < 66 THEN 0 ELSE BitsValue(SubSeq(r, 66, Len(r))),
         frac |-> Reverse(BitsToLimbs([i \in 1..64 |-> bit(i + 1)]))]

RECURSIVE ReprFrom(_, _, _, _)
\* The decimal of s with k + 1 fraction digits nearest to s if float()
\* reads it back as s, else the same with one more digit.  limbs and n are
\* the fraction and integer part of (s % 1) * 10^k.
ReprFrom(s, limbs, n, k) ==
    LET prod == MulLimbs(limbs, 10, 0)
        rest == SubSeq(prod, 1, 4)
        digits == 10 * n + prod[5]
        nearest == digits + (IF rest[4] >= 32768 THEN 1 ELSE 0)
        carry == nearest = PowerOfTen(k + 1)
        intDigits == DecChars(IF carry THEN s.int + 1 ELSE s.int)
        fracDigits == ZeroPad(IF carry THEN 0 ELSE nearest, k + 1)
    IN  IF ParseFloat(intDigits, fracDigits) = s
        THEN intDigits \o <<".">> \o fracDigits
        ELSE ReprFrom(s, rest, digits, k + 1)

\* float.__repr__(s) for 1e-4 <= s < 1e16 or s = 0.0
FloatRepr(s) == ReprFrom(s, Reverse(s.frac), 0, 0)

(***************************************************************************)
(* json.dumps(data, indent=2, ensure_ascii=False).  A value is a record    *)
(* [t, v]; the v of a dict is the sequence of its <<key, value>> items in  *)
(* insertion order.                                                        *)
(***************************************************************************)

JStr(chars) == [t |-> "str", v |-> chars]
JInt(n) == [t |-> "int", v |-> n]
JFloat(d) == [t |-> "float", v |-> d]
JList(items) == [t |-> "list", v |-> items]
JDict(items) == [t |-> "dict", v |-> items]

\* The character is written as it is, without escaping.
EscapeChar_Raw(c) == <<c>>

\* py_encode_basestring: the characters json escapes when ensure_ascii is off.
EscapeChar(c) ==
    CASE c = "\"" -> <<"\\", "\"">>
      [] c = "\\" -> <<"\\", "\\">>
      [] c = "\n" -> <<"\\", "n">>
      [] c = "\r" -> <<"\\", "r">>
      [] c = "\t" -> <<"\\", "t">>
      [] OTHER -> <<c>>

JsonString(chars) ==
    <<"\"">> \o Concat([i \in 1..Len(chars) |-> EscapeChar(chars[i])]) \o <<"\"">>

\* The newline and indentation json writes before an item at this depth.
NewlineIndent(level) == <<"\n">> \o [i \in 1..(2 * level) |-> " "]

RECURSIVE JsonDumps(_, _)
\* _make_iterencode with indent=2: the text of a value at a nesting depth.
JsonDumps(value, level) ==
    CASE value.t = "str" -> JsonString(value.v)
      [] value.t = "int" -> DecChars(value.v)
      [] value.t = "float" -> FloatRepr(value.v)
      [] value.t = "list" ->
           IF value.v = <<>> THEN <<"[", "]">>
           ELSE <<"[">> \o NewlineIndent(level + 1)
                  \o Join([i \in 1..Len(value.v) |-> JsonDumps(value.v[i], level + 1)],
                          <<",">> \o NewlineIndent(level + 1))
                  \o NewlineIndent(level) \o <<"]">>
      [] value.t = "dict" ->
           IF value.v = <<>> THEN <<"{", "}">>
           ELSE <<"{">> \o NewlineIndent(level + 1)
                  \o Join([i \in 1..Len(value.v) |->
                             JsonString(value.v[i][1]) \o <<":", " ">>
                               \o JsonDumps(value.v[i][2], level + 1)],
                          <<",">> \o NewlineIndent(level + 1))
                  \o NewlineIndent(level) \o <<"}">>

LanguageKey == <<"l", "a", "n", "g", "u", "a", "g", "e">>
SegmentsKey == <<"s", "e", "g", "m", "e", "n", "t", "s">>
IdKey == <<"i", "d">>
StartKey == <<"s", "t", "a", "r", "t">>
EndKey == <<"e", "n", "d">>
TextKey == <<"t", "e", "x", "t">>

\* One entry of the "segments" list built by generate_json.
JsonSegment(i, seg) ==
    JDict(<< <<IdKey, JInt(i)>>, <<StartKey, JFloat(seg.start)>>,
             <<EndKey, JFloat(seg.end)>>, <<TextKey, JStr(Strip(seg.text))>> >>)

\* The data dict of generate_json.
JsonData(segs, lang) ==
    JDict(<< <<LanguageKey, JStr(lang)>>,
             <<SegmentsKey, JList([i \in 1..Len(segs) |-> JsonSegment(i, segs[i])])>> >>)

generate_json(segs, lang) ==
    Reading(segs, <<"start", "end", "text">>, JsonDumps(JsonData(segs, lang), 0))

(***************************************************************************)
(* json.loads: a reader of the JSON grammar for the values json.dumps      *)
(* writes above (objects, arrays, strings, numbers without exponent).  A   *)
(* parsed object is a function from its keys to its values.                *)
(***************************************************************************)

ParseFailure == [ok |-> FALSE, val |-> <<>>, pos |-> 0]

Parsed(val, pos) == [ok |-> TRUE, val |-> val, pos |-> pos]

RECURSIVE SkipWhitespace(_, _)
\* The first position at or after p that holds no JSON whitespace.
SkipWhitespace(s, p) ==
    IF p <= Len(s) /\ s[p] \in Whitespace THEN SkipWhitespace(s, p + 1) ELSE p

\* The character a backslash escape stands for ("" if it is none).
Unescape(c) ==
    CASE c = "\"" -> "\""
      [] c = "\\" -> "\\"
      [] c = "/" -> "/"
      [] c = "n" -> "\n"
      [] c = "r" -> "\r"
      [] c = "t" -> "\t"
      [] OTHER -> ""

RECURSIVE ScanString(_, _, _)
\* py_scanstring from the character after the opening quote; a raw control
\* character or an unknown escape is an error.
ScanString(s, p, acc) ==
    IF p > Len(s) THEN ParseFailure
    ELSE IF s[p] = "\"" THEN Parsed(JStr(acc), p + 1)
    ELSE IF s[p] = "\\"
         THEN IF p + 1 > Len(s) \/ Unescape(s[p + 1]) = "" THEN ParseFailure
              ELSE ScanString(s, p + 2, Append(acc, Unescape(s[p + 1])))
    ELSE IF s[p] \in {"\n", "\r", "\t"} THEN ParseFailure
    ELSE ScanString(s, p + 1, Append(acc, s[p]))

RECURSIVE DigitsEnd(_, _)
\* The first position at or after p that holds no digit.
DigitsEnd(s, p) == IF p <= Len(s) /\ s[p] \in Digits THEN DigitsEnd(s, p + 1) ELSE p

\* NUMBER_RE: digits, then optionally a point and digits; an int without
\* the fraction, a float with it.
ScanNumber(s, p) ==
    LET e == DigitsEnd(s, p)
        f == IF e <= Len(s) /\ s[e] = "." THEN DigitsEnd(s, e + 1) ELSE e
    IN  IF e = p THEN ParseFailure
        ELSE IF f > e + 1
        THEN Parsed(JFloat(ParseFloat(Slice(s, p, e - 1), Slice(s, e + 1, f - 1))), f)
        ELSE Parsed(JInt(DecValue(Slice(s, p, e - 1))), e)

RECURSIVE ScanValue(_, _)
RECURSIVE ScanArray(_, _, _)
RECURSIVE ScanObject(_, _, _)

\* scan_once: the value that starts at p.
ScanValue(s, p) ==
    IF p > Len(s) THEN ParseFailure
    ELSE IF s[p] = "\"" THEN ScanString(s, p + 1, <<>>)
    ELSE IF s[p] = "{" THEN ScanObject(s, SkipWhitespace(s, p + 1), [k \in {} |-> 0])
    ELSE IF s[p] = "[" THEN ScanArray(s, SkipWhitespace(s, p + 1), <<>>)
    ELSE ScanNumber(s, p)

\* JSONArray: p is at the first item, at the item after a comma, or at "]".
ScanArray(s, p, acc) ==
    IF p > Len(s) THEN ParseFailure
    ELSE IF s[p] = "]" /\ acc = <<>> THEN Parsed(JList(acc), p + 1)
    ELSE LET item == ScanValue(s, p)
             q == SkipWhitespace(s, item.pos)
         IN  IF ~item.ok \/ q > Len(s) THEN ParseFailure
             ELSE IF s[q] = "]" THEN Parsed(JList(Append(acc, item.val)), q + 1)
             ELSE IF s[q] = "," THEN ScanArray(s, SkipWhitespace(s, q + 1), Append(acc, item.val))
             ELSE ParseFailure

\* JSONObject: p is at the first key, at the key after a comma, or at "}".
ScanObject(s, p, acc) ==
    IF p > Len(s) THEN ParseFailure
    ELSE IF s[p] = "}" /\ DOMAIN acc = {} THEN Parsed(JDict(acc), p + 1)
    ELSE IF s[p] # "\"" THEN ParseFailure
    ELSE LET key == ScanString(s, p + 1, <<>>)
             c == SkipWhitespace(s, key.pos)
             item == ScanValue(s, SkipWhitespace(s, c + 1))
             q == SkipWhitespace(s, item.pos)
             more == (key.val.v :> item.val) @@ acc
         IN  IF ~key.ok \/ c > Len(s) \/ s[c] # ":" THEN ParseFailure
             ELSE IF ~item.ok \/ q > Len(s) THEN ParseFailure
             ELSE IF s[q] = "}" THEN Parsed(JDict(more), q + 1)
             ELSE IF s[q] = "," THEN ScanObject(s, SkipWhitespace(s, q + 1), more)
             ELSE ParseFailure

\* json.loads(s): one value and nothing but whitespace after it.
json_loads(s) ==
    LET r == ScanValue(s, SkipWhitespace(s, 1))
    IN  IF r.ok /\ SkipWhitespace(s, r.pos) = Len(s) + 1 THEN r ELSE ParseFailure

(***************************************************************************)
(* The transcripts the generators are applied to.                          *)
(***************************************************************************)

\* The doubles 0.0, 0.009, 1.9995, 2.56 and 3661.5.
T0 == [int |-> 0, frac |-> <<0, 0, 0, 0>>]
T0_009 == [int |-> 0, frac |-> <<589, 54001, 43515, 59232>>]
T1_9995 == [int |-> 1, frac |-> <<65503, 15204, 23068, 45056>>]
T2_56 == [int |-> 2, frac |-> <<36700, 10485, 49807, 24576>>]
T3661_5 == [int |-> 3661, frac |-> <<32768, 0, 0, 0>>]

Segment(id, start, end, text) == [id |-> id, start |-> start, end |-> end, text |-> text]

\* Segments as Whisper returns them: ids that repeat and are out of order,
\* texts with whitespace around them, empty after trimming, with a comma,
\* a line break, a quote, a backslash and a non-ASCII letter.
WellFormedSegments ==
    { Segment(0, T0, T2_56, <<" ", " ", "h", "e", "l", "l", "o", " ", " ">>),
      Segment(5, T2_56, T3661_5, <<>>),
      Segment(5, T0_009, T1_9995, <<" ", "\t">>),
      Segment(2, T1_9995, T2_56, <<"é", "\"", "x", "\\", "\n">>),
      Segment(1, T3661_5, T3661_5, <<" ", "a", ",", "b", "\n", "c", " ">>) }

\* Segments that lack a field.
MalformedSegments ==
    { [id |-> 0, start |-> T0, end |-> T2_56],
      [id |-> 1, end |-> T2_56, text |-> <<"h", "i">>],
      [id |-> 2, start |-> T0, text |-> <<"h", "i">>],
      [start |-> T0, end |-> T2_56, text |-> <<"h", "i">>] }

SegmentPool == WellFormedSegments \cup MalformedSegments

\* The longest transcript.
MaxSegments == 2

SegmentLists == UNION { [1..n -> SegmentPool] : n \in 0..MaxSegments }

\* result.get('language', 'unknown')
Languages == { <<"e", "n">>, <<"u", "n", "k", "n", "o", "w", "n">> }

(***************************************************************************)
(* The results display (whisper_transcribe_app.py, lines 206-231) calls    *)
(* the generators in order; an exception ends the script run.  The SRT     *)
(* loop of the subtitle tool runs on its own.                              *)
(***************************************************************************)

ExportInit ==
    /\ WebIdle
    /\ TimeIdle
    /\ NetIdle
    /\ WhisperIdle
    /\ ConfigIdle
    /\ segments \in SegmentLists
    /\ language \in Languages
    /\ xpc = "preview"
    /\ full_text = NotCalled
    /\ plain_text = NotCalled
    /\ timestamped_text = NotCalled
    /\ srt_text = NotCalled
    /\ vtt_text = NotCalled
    /\ json_text = NotCalled
    /\ subtitle_srt = NotCalled

\* Where the script run goes after a call.
Continue(call, next) == IF call.raised THEN "raised" ELSE next

\* full_text = generate_plain_text(segments)  (line 219)
Preview ==
    /\ xpc = "preview"
    /\ full_text' = generate_plain_text(segments)
    /\ xpc' = Continue(full_text', "plain")
    /\ UNCHANGED << nonExportVars, segments, language, subtitle_srt >>
    /\ UNCHANGED << plain_text, timestamped_text, srt_text, vtt_text, json_text >>

\* plain_text = generate_plain_text(segments)
GeneratePlainText ==
    /\ xpc = "plain"
    /\ plain_text' = generate_plain_text(segments)
    /\ xpc' = Continue(plain_text', "timestamped")
    /\ UNCHANGED << nonExportVars, segments, language, subtitle_srt >>
    /\ UNCHANGED << full_text, timestamped_text, srt_text, vtt_text, json_text >>

\* timestamped_text = generate_timestamped_text(segments)
GenerateTimestampedText ==
    /\ xpc = "timestamped"
    /\ timestamped_text' = generate_timestamped_text(segments)
    /\ xpc' = Continue(timestamped_text', "srt")
    /\ UNCHANGED << nonExportVars, segments, language, subtitle_srt >>
    /\ UNCHANGED << full_text, plain_text, srt_text, vtt_text, json_text >>

\* srt_text = generate_srt(segments)
GenerateSrt ==
    /\ xpc = "srt"
    /\ srt_text' = generate_srt(segments)
    /\ xpc' = Continue(srt_text', "vtt")
    /\ UNCHANGED << nonExportVars, segments, language, subtitle_srt >>
    /\ UNCHANGED << full_text, plain_text, timestamped_text, vtt_text, json_text >>

\* vtt_text = generate_vtt(segments)
GenerateVtt ==
    /\ xpc = "vtt"
    /\ vtt_text' = generate_vtt(segments)
    /\ xpc' = Continue(vtt_text', "json")
    /\ UNCHANGED << nonExportVars, segments, language, subtitle_srt >>
    /\ UNCHANGED << full_text, plain_text, timestamped_text, srt_text, json_text >>

\* json_text = generate_json(segments, detected_lang)
GenerateJson ==
    /\ xpc = "json"
    /\ json_text' = generate_json(segments, language)
    /\ xpc' = Continue(json_text', "done")
    /\ UNCHANGED << nonExportVars, segments, language, subtitle_srt >>
    /\ UNCHANGED << full_text, plain_text, timestamped_text, srt_text, vtt_text >>

\* The loop of whisper_srt_app.py over transcription['segments'].
BuildSubtitleSrt ==
    /\ ~subtitle_srt.called
    /\ subtitle_srt' = SubtitleSrt(segments)
    /\ UNCHANGED << nonExportVars, segments, language, xpc, outVars >>

ExportNext ==
    \/ Preview
    \/ GeneratePlainText
    \/ GenerateTimestampedText
    \/ GenerateSrt
    \/ GenerateVtt
    \/ GenerateJson
    \/ BuildSubtitleSrt

ExportSpec == ExportInit /\ [][ExportNext]_vars

(***************************************************************************)
(* Reading the subtitle texts back: lines, timing lines, block labels.     *)
(***************************************************************************)

RECURSIVE SplitLines(_)
\* s.split('\n')
SplitLines(s) ==
    IF Find(s, "\n") = 0 THEN <<s>>
    ELSE <<Before(s, "\n")>> \o SplitLines(After(s, "\n"))

\* The line holds " --> ": it is the timing line of a block.
IsTimingLine(line) ==
    \E i \in 1..(Len(line) - Len(Arrow) + 1) : SubSeq(line, i, i + Len(Arrow) - 1) = Arrow

\* The elements of a set of numbers in increasing order.
Sorted(set) ==
    [k \in 1..Cardinality(set) |->
        CHOOSE i \in set : Cardinality({ j \in set : j < i }) = k - 1]

\* The positions of the timing lines of a subtitle text, in order.
TimingLines(out) ==
    LET lines == SplitLines(out)
    IN  Sorted({ i \in 1..Len(lines) : IsTimingLine(lines[i]) })

\* The label of each block of a subtitle text: the line above its timing
\* line.
Labels(out) ==
    LET lines == SplitLines(out)
        at == TimingLines(out)
    IN  [k \in 1..Len(at) |-> IF at[k] > 1 THEN lines[at[k] - 1] ELSE <<>>]

\* The labels 1, 2, ..., n.
Sequential(n) == [k \in 1..n |-> DecChars(k)]

\* The call returned a text.
Returned_Text(call) == call.called /\ ~call.raised

\* C11: every SRT and WebVTT text the program produces (generate_srt,
\* generate_vtt, the SRT of the subtitle tool) labels its blocks 1, 2, ..., N
\* in emission order, whatever ids the incoming segments carry.
C11_SequentialLabels ==
    \A call \in {srt_text, vtt_text, subtitle_srt} :
        Returned_Text(call) => Labels(call.value) = Sequential(Len(segments))

\* A value no line has.
NoLine == <<"\n">>

LineAt(lines, i) == IF i \in 1..Len(lines) THEN lines[i] ELSE NoLine

\* The lines the trimmed text of a segment takes.
TextLinesOf(seg) == SplitLines(Strip(seg.text))

\* The blocks of a subtitle text are those of segs, and between the last
\* text line of each and the label of the next lies one line, an empty one.
OneBlankLineBetweenBlocks(out, segs) ==
    LET lines == SplitLines(out)
        at == TimingLines(out)
    IN  /\ Len(at) = Len(segs)
        /\ \A k \in 1..(Len(segs) - 1) :
              LET last == at[k] + Len(TextLinesOf(segs[k]))
                  label == at[k + 1] - 1
              IN  /\ [i \in 1..Len(TextLinesOf(segs[k])) |-> LineAt(lines, at[k] + i)]
                       = TextLinesOf(segs[k])
                  /\ label = last + 2
                  /\ LineAt(lines, last + 1) = <<>>
                  /\ LineAt(lines, label) = DecChars(k + 1)

\* C13: in the output of generate_srt and of generate_vtt any two
\* consecutive blocks are separated by exactly one blank line: one empty
\* line lies between the last line of a block and the index line of the next.
C13_OneBlankLine ==
    \A call \in {srt_text, vtt_text} :
        Returned_Text(call) => OneBlankLineBetweenBlocks(call.value, segments)

\* Both texts were generated from two or more segments, the first of them
\* with a text of two lines.
C13_Witness ==
    /\ Returned_Text(srt_text)
    /\ Returned_Text(vtt_text)
    /\ Len(segments) >= 2
    /\ Len(TextLinesOf(segments[1])) = 2

\* C14: a segment whose trimmed text is empty is not skipped by generate_srt
\* or generate_vtt: the text has one block per segment, the k-th block is
\* labelled k, and the block of such a segment has an empty text line.
C14_EmptyTextKeepsBlock ==
    \A call \in {srt_text, vtt_text} :
        Returned_Text(call) =>
            LET lines == SplitLines(call.value)
                at == TimingLines(call.value)
            IN  /\ Len(at) = Len(segments)
                /\ \A k \in 1..Len(segments) :
                      /\ LineAt(lines, at[k] - 1) = DecChars(k)
                      /\ Strip(segments[k].text) = <<>> =>
                            /\ LineAt(lines, at[k] + 1) = <<>>
                            /\ LineAt(lines, at[k] + 2) = <<>>

\* Both texts were generated from a segment with empty trimmed text that is
\* followed by another segment.
C14_Witness ==
    /\ Returned_Text(srt_text)
    /\ Returned_Text(vtt_text)
    /\ Len(segments) >= 2
    /\ Strip(segments[1].text) = <<>>
    /\ segments[1].text # <<>>

(***************************************************************************)
(* Reading the emitted texts back from each format.                        *)
(***************************************************************************)

\* t without the whitespace at its two ends.
Trimmed(t) ==
    LET keep == { i \in 1..Len(t) : t[i] \notin Whitespace }
    IN  IF keep = {} THEN <<>>
        ELSE SubSeq(t, CHOOSE i \in keep : \A j \in keep : i <= j,
                       CHOOSE i \in keep : \A j \in keep : j <= i)

\* The number of lines a text takes.
LineCount(t) == Len(SplitLines(t))

\* The text that n lines make, from line number from on.
EmittedText(lines, from, n) ==
    Join([i \in 1..n |-> LineAt(lines, from + i - 1)], <<"\n">>)

RECURSIVE LinesBefore(_, _)
\* The number of lines the trimmed texts of the segments before the k-th take.
LinesBefore(segs, k) ==
    IF k = 1 THEN 0 ELSE LinesBefore(segs, k - 1) + LineCount(Trimmed(segs[k - 1].text))

\* The text of the k-th segment in a text of one entry per segment.
TextInLines(out, segs, k) ==
    EmittedText(SplitLines(out), LinesBefore(segs, k) + 1, LineCount(Trimmed(segs[k].text)))

\* The text of the k-th block of a subtitle text (NoLine if it has no such
\* block).
TextInBlock(out, segs, k) ==
    LET at == TimingLines(out)
    IN  IF k > Len(at) THEN NoLine
        ELSE EmittedText(SplitLines(out), at[k] + 1, LineCount(Trimmed(segs[k].text)))

Missing == [t |-> "missing", v |-> <<>>]

\* obj[key] of a parsed JSON object.
Field(obj, key) ==
    IF obj.t = "dict" /\ key \in DOMAIN obj.v THEN obj.v[key] ELSE Missing

\* json.loads(out), Missing if out is no JSON text.
Loaded(out) == IF json_loads(out).ok THEN json_loads(out).val ELSE Missing

\* The k-th entry of the "segments" list of a JSON text.
JsonEntry(out, k) ==
    LET list == Field(Loaded(out), SegmentsKey)
    IN  IF list.t = "list" /\ k \in 1..Len(list.v) THEN list.v[k] ELSE Missing

\* The value is the string chars.
IsStr(value, chars) == value.t = "str" /\ value.v = chars

\* C15: in each of the five export formats every segment's text is emitted
\* with all its leading and trailing whitespace removed and nothing else
\* changed ('  hello  ' is emitted as 'hello').
C15_TextTrimmed ==
    \A k \in 1..Len(segments) :
        LET text == Trimmed(segments[k].text)
        IN  /\ Returned_Text(plain_text) =>
                  TextInLines(plain_text.value, segments, k) = text
            /\ Returned_Text(timestamped_text) =>
                  TextInLines(timestamped_text.value, segments, k)
                    = <<"[">> \o format_timestamp_vtt(segments[k].start) \o <<"]", " ">> \o text
            /\ Returned_Text(srt_text) => TextInBlock(srt_text.value, segments, k) = text
            /\ Returned_Text(vtt_text) => TextInBlock(vtt_text.value, segments, k) = text
            /\ Returned_Text(json_text) =>
                  IsStr(Field(JsonEntry(json_text.value, k), TextKey), text)

\* All five formats were generated from a transcript that holds '  hello  '
\* (emitted as 'hello') and a second segment.
C15_Witness ==
    /\ xpc = "done"
    /\ Len(segments) >= 2
    /\ \E k \in 1..Len(segments) :
          /\ segments[k].text = <<" ", " ", "h", "e", "l", "l", "o", " ", " ">>
          /\ TextInLines(plain_text.value, segments, k) = <<"h", "e", "l", "l", "o">>
          /\ TextInBlock(srt_text.value, segments, k) = <<"h", "e", "l", "l", "o">>

\* The value is the float d.
IsFloat(value, d) == value.t = "float" /\ value.v = d

\* C16: parsing the output of generate_json(segments, language) gives an
\* object whose language is the input tag and whose segments list has the
\* length and order of the input: the k-th entry has id k, start and end
\* equal to the input numbers, and the trimmed input text.
C16_JsonRoundTrip ==
    Returned_Text(json_text) =>
        LET data == Loaded(json_text.value)
            list == Field(data, SegmentsKey)
        IN  /\ IsStr(Field(data, LanguageKey), language)
            /\ list.t = "list"
            /\ Len(list.v) = Len(segments)
            /\ \A k \in 1..Len(segments) :
                  LET entry == JsonEntry(json_text.value, k)
                  IN  /\ Field(entry, IdKey).t = "int"
                      /\ Field(entry, IdKey).v = k
                      /\ IsFloat(Field(entry, StartKey), segments[k].start)
                      /\ IsFloat(Field(entry, EndKey), segments[k].end)
                      /\ IsStr(Field(entry, TextKey), Trimmed(segments[k].text))

\* The JSON text of two or more segments, one of them with a non-ASCII
\* letter, a quote and a backslash in its text and with times that are no
\* short binary fractions.
C16_Witness ==
    /\ Returned_Text(json_text)
    /\ Len(segments) >= 2
    /\ \E k \in 1..Len(segments) :
          /\ segments[k].text = <<"é", "\"", "x", "\\", "\n">>
          /\ segments[k].start = T1_9995
          /\ IsStr(Field(JsonEntry(json_text.value, k), TextKey), <<"é", "\"", "x", "\\">>)

\* vtt is "WEBVTT\n\n" followed by srt with the comma of every timing line
\* turned into a dot and nothing else changed.
IsSrtWithDots(vtt, srt) ==
    LET timing == { TimingLines(srt)[k] : k \in 1..Len(TimingLines(srt)) }
        lineOf(i) == 1 + Cardinality({ j \in 1..(i - 1) : srt[j] = "\n" })
    IN  /\ Len(vtt) = 8 + Len(srt)
        /\ SubSeq(vtt, 1, 8) = <<"W", "E", "B", "V", "T", "T", "\n", "\n">>
        /\ \A i \in 1..Len(srt) :
              vtt[8 + i] = IF srt[i] = "," /\ lineOf(i) \in timing THEN "." ELSE srt[i]

\* C17: generate_vtt(segments) is "WEBVTT\n\n" followed by the blocks of
\* generate_srt(segments) with only the millisecond separator of each
\* timestamp changed from ',' to '.'.
C17_VttIsSrtWithDots ==
    Returned_Text(srt_text) /\ Returned_Text(vtt_text) =>
        IsSrtWithDots(vtt_text.value, srt_text.value)

\* Both texts were generated from two or more segments, one of them with a
\* comma in its text, which the WebVTT text keeps.
C17_Witness ==
    /\ Returned_Text(srt_text)
    /\ Returned_Text(vtt_text)
    /\ Len(segments) >= 2
    /\ \E k \in 1..Len(segments) : "," \in { segments[k].text[i] : i \in 1..Len(segments[k].text) }
    /\ "," \in { vtt_text.value[i] : i \in 1..Len(vtt_text.value) }

\* C18: for the empty segment list no generator raises; plain text,
\* timestamped text and SRT are the empty string, WebVTT is "WEBVTT\n\n",
\* and the JSON text parses to the language tag and an empty segments list.
C18_EmptyTranscript ==
    segments = <<>> =>
        /\ \A call \in {plain_text, timestamped_text, srt_text, vtt_text, json_text} :
              ~call.raised
        /\ \A call \in {plain_text, timestamped_text, srt_text} :
              call.called => call.value = <<>>
        /\ vtt_text.called =>
              vtt_text.value = <<"W", "E", "B", "V", "T", "T", "\n", "\n">>
        /\ json_text.called =>
              /\ IsStr(Field(Loaded(json_text.value), LanguageKey), language)
              /\ Field(Loaded(json_text.value), SegmentsKey).t = "list"
              /\ Field(Loaded(json_text.value), SegmentsKey).v = <<>>

\* All five generators were called on the empty list with language "unknown".
C18_Witness ==
    /\ segments = <<>>
    /\ language = <<"u", "n", "k", "n", "o", "w", "n">>
    /\ xpc = "done"
    /\ json_text.called

\* A segment lacks its start, end or text field.
IsMalformed(seg) == {"start", "end", "text"} \ DOMAIN seg # {}

\* The call gave its caller a result value that reports a rejection.
IsRejection(call) == call.called /\ ~call.raised /\ call.error # <<>>

\* C20: a generator called with a list that holds a segment without start,
\* end or text reports a rejection as its result: it neither raises nor
\* returns an output text.
C20_MalformedRejected ==
    (\E k \in 1..Len(segments) : IsMalformed(segments[k])) =>
        \A call \in {full_text, plain_text, timestamped_text, srt_text, vtt_text, json_text} :
            call.called => IsRejection(call)

(***************************************************************************)
(* The web-summary script with a name service whose answers change: the    *)
(* answer for a name may be replaced at any moment, also between the       *)
(* lookup of is_safe_url (url_validator.py, line 35) and the download of   *)
(* fetch_web_content (web_summary_app.py, lines 182-183).                  *)
(***************************************************************************)

PublicName == <<"p", "u", "b">>

\* The answers the name service may give for the name: its address of the
\* table, the loopback address, or the address of the table followed by an
\* internal one.
DnsAnswers ==
    { <<ARecord(PublicName)>>,
      << <<127, 0, 0, 1>> >>,
      <<ARecord(PublicName), <<10, 0, 0, 5>> >> }

\* The texts typed into the URL field.
RebindUrls ==
    { <<>>,
      <<"h", "t", "t", "p", ":", "/", "/", "p", "u", "b">>,
      <<"h", "t", "t", "p", "s", ":", "/", "/", "p", "u", "b", "/", "p">>,
      <<"h", "t", "t", "p", ":", "/", "/", "l", "o">>,
      <<"h", "t", "t", "p", ":", "/", "/", "[">>,
      <<"f", "t", "p", ":", "/", "/", "p", "u", "b">> }

\* The name service starts to give another answer for the name.
DnsChanges(answer) ==
    /\ dns[PublicName] # answer
    /\ dns' = [dns EXCEPT ![PublicName] = answer]
    /\ UNCHANGED nonNetVars

RebindInit == Init

RebindNext ==
    \/ \E u \in RebindUrls : UserEntersUrl(u)
    \/ UserClicksSummarize
    \/ Parse
    \/ CheckScheme
    \/ CheckNetloc
    \/ Resolve
    \/ Classify
    \/ OuterExcept
    \/ AfterValidation
    \/ Fetch
    \/ \E answer \in DnsAnswers : DnsChanges(answer)

RebindSpec == RebindInit /\ [][RebindNext]_vars

\* C21: is_safe_url resolves the hostname once, and the download resolves
\* it again on its own: the address it connects to is one of the answer the
\* name service gives at the time of the download, whatever address
\* is_safe_url classified.  Hence the behaviour of C21_Witness.
C21_FetchResolvesAgain ==
    /\ [](resolverCalls <= 1)
    /\ [][(pc = "fetch" /\ pc' = "idle") =>
            connected' \subseteq ConnectAddresses(UrlHost)]_vars

\* is_safe_url returned is_safe=true for the URL, whose host is the name it
\* looked up, and the download of that URL connected to a loopback or
\* internal address that was never classified.
C21_Witness ==
    /\ pc = "idle"
    /\ fetched = <<url>>
    /\ result.is_safe
    /\ <<url, TRUE>> \in validated
    /\ hostname = UrlHost
    /\ \E a \in connected : a # ip /\ IsBlocked(a)

\* The text has the form HH:MM:SS,mmm.
IsSrtTimestamp(t) ==
    /\ Len(t) = 12
    /\ \A i \in {1, 2, 4, 5, 7, 8, 10, 11, 12} : t[i] \in Digits
    /\ t[3] = ":"
    /\ t[6] = ":"
    /\ t[9] = ","

\* C23: format_timestamp(seconds) of the subtitle tool returns, for every
\* non-negative seconds value, a text of the form HH:MM:SS,mmm: two digits
\* of hours, two of minutes, two of seconds, a comma, three of milliseconds.
C23_SubtitleTimestampForm == tsSub # <<>> => IsSrtTimestamp(tsSub)

(***************************************************************************)
(* The requests of the three Whisper tools: the audio summary              *)
(* (whisper_app.py, lines 67-135 and process_audio), the transcription     *)
(* (whisper_transcribe_app.py, lines 150-203 and 322-325) and the          *)
(* subtitles (whisper_srt_app.py, lines 91-204).  Each request loads the   *)
(* model, writes the upload into a temporary file, transcribes it and      *)
(* removes the file in its finally clause.                                 *)
(***************************************************************************)

Tools == {"summary", "transcribe", "subtitles"}

\* The names of the uploaded files.
Uploads ==
    { <<"a", ".", "m", "p", "3">>,
      <<"t", ".", "v", "2", ".", "w", "a", "v">> }

\* What model.transcribe may return: the segments and the language.
Transcripts ==
    { [segments |-> << Segment(0, T0, T2_56, <<" ", "h", "i">>) >>,
       language |-> <<"e", "n">>],
      [segments |-> << Segment(0, T0, T1_9995, <<" ", "a">>),
                       Segment(1, T1_9995, T2_56, <<" ", "b">>) >>,
       language |-> <<"n", "l">>] }

\* The most requests of one process.
MaxRequests == 3

\* audio_file.name.rsplit('.', 1)[0]
BaseName(name) ==
    IF RFind(name, ".") = 0 THEN name ELSE Slice(name, 1, RFind(name, ".") - 1)

\* The model names some cache holds.
Cached == UNION { cache[t] : t \in CachingTools }

\* The button of a tool is pressed with a file uploaded: the script runs
\* and enters the try block of the request.
PressButton(t, m, u) ==
    /\ wpc = "idle"
    /\ requests < MaxRequests
    /\ requests' = requests + 1
    /\ stored_before' = transcription_result
    /\ tool' = t
    /\ whisper_model_name' = m
    /\ upload' = u
    /\ tempFile' = "none"
    /\ audio_path' = FALSE
    /\ removeFailed' = FALSE
    /\ failed' = FALSE
    /\ transcription' = NoTranscription
    /\ wpc' = "load"
    /\ UNCHANGED << loads, cache, held, transcription_result, completed >>
    /\ UNCHANGED nonWhisperVars

\* The tool has the model in its cache: load_whisper_model returns it
\* without calling whisper.load_model.
CacheHit == tool \in CachingTools /\ whisper_model_name \in cache[tool]

\* whisper_app.py:74 whisper.load_model(whisper_model); the other two tools:
\* load_whisper_model(whisper_model_name), a function of their own module
\* under @st.cache_resource.
LoadModel ==
    /\ wpc = "load"
    /\ IF CacheHit
       THEN UNCHANGED << loads, cache >>
       ELSE /\ loads' = [loads EXCEPT ![whisper_model_name] = @ + 1]
            /\ IF tool \in CachingTools
               THEN cache' = [cache EXCEPT ![tool] = @ \cup {whisper_model_name}]
               ELSE UNCHANGED cache
    /\ held' = held \cup {whisper_model_name}
    /\ wpc' = "create"
    /\ UNCHANGED << tool, whisper_model_name, upload, tempFile, audio_path,
                    removeFailed, failed, transcription, transcription_result,
                    completed, requests,
                    stored_before >>
    /\ UNCHANGED nonWhisperVars

\* whisper.load_model raises; nothing is cached.
LoadModelFails ==
    /\ wpc = "load"
    /\ ~CacheHit
    /\ wpc' = "except"
    /\ UNCHANGED << tool, whisper_model_name, upload, loads, cache, held, tempFile,
                    audio_path, removeFailed, failed, transcription,
                    transcription_result, completed, requests,
                    stored_before >>
    /\ UNCHANGED nonWhisperVars

\* with tempfile.NamedTemporaryFile(delete=False, ...) as temp: the file
\* exists from here on.
CreateTempFile ==
    /\ wpc = "create"
    /\ tempFile' = "exists"
    /\ wpc' = "write"
    /\ UNCHANGED << tool, whisper_model_name, upload, loads, cache, held,
                    audio_path, removeFailed, failed, transcription,
                    transcription_result, completed, requests,
                    stored_before >>
    /\ UNCHANGED nonWhisperVars

\* temp.write(file.read()) and then the assignment of the path variable.
WriteUpload ==
    /\ wpc = "write"
    /\ audio_path' = TRUE
    /\ wpc' = "transcribe"
    /\ UNCHANGED << tool, whisper_model_name, upload, loads, cache, held, tempFile,
                    removeFailed, failed, transcription, transcription_result,
                    completed, requests,
                    stored_before >>
    /\ UNCHANGED nonWhisperVars

\* file.read() or temp.write raises: the with block closes the file, which
\* stays (delete=False), and the path variable is still None.
WriteUploadFails ==
    /\ wpc = "write"
    /\ wpc' = "except"
    /\ UNCHANGED << tool, whisper_model_name, upload, loads, cache, held, tempFile,
                    audio_path, removeFailed, failed, transcription,
                    transcription_result, completed, requests,
                    stored_before >>
    /\ UNCHANGED nonWhisperVars

\* The result of this request: what model.transcribe returned and the
\* name of the upload without its extension.
ThisResult(tr) ==
    [present |-> TRUE, segments |-> tr.segments, language |-> tr.language,
     filename |-> BaseName(upload)]

\* model.transcribe(path, ...) returns; the transcription tool goes on to
\* store the result, the other two tools show theirs.
Transcribe(tr) ==
    /\ wpc = "transcribe"
    /\ transcription' = ThisResult(tr)
    /\ IF tool = "transcribe"
       THEN /\ completed' = completed \cup {ThisResult(tr)}
            /\ wpc' = "store"
       ELSE /\ UNCHANGED completed
            /\ wpc' = "finally"
    /\ UNCHANGED << tool, whisper_model_name, upload, loads, cache, held, tempFile,
                    audio_path, removeFailed, failed, transcription_result, requests,
                    stored_before >>
    /\ UNCHANGED nonWhisperVars

\* model.transcribe (or the audio decoding before it) raises.
TranscribeFails ==
    /\ wpc = "transcribe"
    /\ wpc' = "except"
    /\ UNCHANGED << tool, whisper_model_name, upload, loads, cache, held, tempFile,
                    audio_path, removeFailed, failed, transcription,
                    transcription_result, completed, requests,
                    stored_before >>
    /\ UNCHANGED nonWhisperVars

\* whisper_transcribe_app.py:186-190
\* st.session_state.transcription_result = {'segments', 'language', 'filename'}
StoreResult ==
    /\ wpc = "store"
    /\ transcription_result' = transcription
    /\ wpc' = "finally"
    /\ UNCHANGED << tool, whisper_model_name, upload, loads, cache, held, tempFile,
                    audio_path, removeFailed, failed, transcription, completed,
                    requests,
                    stored_before >>
    /\ UNCHANGED nonWhisperVars

\* An except clause that also drops the stored result.
Except_DropsResult ==
    /\ wpc = "except"
    /\ failed' = TRUE
    /\ transcription_result' = NoTranscription
    /\ wpc' = "finally"
    /\ UNCHANGED << tool, whisper_model_name, upload, loads, cache, held, tempFile,
                    audio_path, removeFailed, transcription, completed, requests,
                    stored_before >>
    /\ UNCHANGED nonWhisperVars

\* except Exception as e: the error is logged and shown (process_audio
\* raises it again after its finally clause).
Except ==
    /\ wpc = "except"
    /\ failed' = TRUE
    /\ wpc' = "finally"
    /\ UNCHANGED << tool, whisper_model_name, upload, loads, cache, held, tempFile,
                    audio_path, removeFailed, transcription, transcription_result,
                    completed, requests,
                    stored_before >>
    /\ UNCHANGED nonWhisperVars

\* finally: if path and os.path.exists(path): os.remove(path)
Finally ==
    /\ wpc = "finally"
    /\ tempFile' = IF audio_path /\ tempFile = "exists" THEN "removed" ELSE tempFile
    /\ wpc' = "done"
    /\ UNCHANGED << tool, whisper_model_name, upload, loads, cache, held,
                    audio_path, removeFailed, failed, transcription,
                    transcription_result, completed, requests,
                    stored_before >>
    /\ UNCHANGED nonWhisperVars

\* finally: os.remove raises; the warning is logged and the file stays.
FinallyRemoveFails ==
    /\ wpc = "finally"
    /\ audio_path
    /\ tempFile = "exists"
    /\ removeFailed' = TRUE
    /\ wpc' = "done"
    /\ UNCHANGED << tool, whisper_model_name, upload, loads, cache, held, tempFile,
                    audio_path, failed, transcription, transcription_result,
                    completed, requests,
                    stored_before >>
    /\ UNCHANGED nonWhisperVars

\* The script run ends: its local variables, among them the handle the
\* audio summary loaded, are gone; the caches stay.
EndRequest ==
    /\ wpc = "done"
    /\ held' = Cached
    /\ wpc' = "idle"
    /\ UNCHANGED << tool, whisper_model_name, upload, loads, cache, tempFile,
                    audio_path, removeFailed, failed, transcription,
                    transcription_result, completed, requests,
                    stored_before >>
    /\ UNCHANGED nonWhisperVars

\* whisper_transcribe_app.py:323-325: "Clear Results" deletes the stored
\* result.
ClearResults ==
    /\ wpc = "idle"
    /\ transcription_result.present
    /\ transcription_result' = NoTranscription
    /\ UNCHANGED << wpc, tool, whisper_model_name, upload, loads, cache, held,
                    tempFile, audio_path, removeFailed, failed, transcription,
                    completed, requests,
                    stored_before >>
    /\ UNCHANGED nonWhisperVars

WhisperInit == Init

WhisperNext ==
    \/ \E t \in Tools, m \in ModelNames, u \in Uploads : PressButton(t, m, u)
    \/ LoadModel
    \/ LoadModelFails
    \/ CreateTempFile
    \/ WriteUpload
    \/ WriteUploadFails
    \/ \E tr \in Transcripts : Transcribe(tr)
    \/ TranscribeFails
    \/ StoreResult
    \/ Except
    \/ Finally
    \/ FinallyRemoveFails
    \/ EndRequest
    \/ ClearResults

WhisperSpec == WhisperInit /\ [][WhisperNext]_vars

\* C22: each Whisper model name is loaded at most once in a process,
\* whatever tools the requests go through.
C22_LoadedOnce == \A m \in ModelNames : loads[m] <= 1

\* C24: when a request has finished, the temporary file it created no
\* longer exists, unless its removal failed.
C24_TempFileRemoved ==
    (wpc = "done" /\ ~removeFailed) => tempFile # "exists"

\* The stored result changes in this step.
ResultChanges == transcription_result' # transcription_result

\* The step that stores the result of the transcription that succeeded in
\* this request.
StoresThisRun ==
    /\ tool = "transcribe"
    /\ wpc = "store"
    /\ ~failed
    /\ transcription.present
    /\ transcription.filename = BaseName(upload)
    /\ transcription_result' = transcription

\* The step of "Clear Results".
ClearsResult == wpc = "idle" /\ wpc' = "idle" /\ transcription_result' = NoTranscription

\* C25: the stored result changes only when a transcription that
\* succeeded stores its own segments, language and filename, or when
\* "Clear Results" deletes it; a request that failed ends with the result
\* that was stored when it began; and the stored result is always the
\* result of one transcription that succeeded.
C25_ResultOnlyFromSuccess ==
    /\ [](transcription_result.present => transcription_result \in completed)
    /\ []((wpc = "done" /\ failed) => transcription_result = stored_before)
    /\ [][ResultChanges => (StoresThisRun \/ ClearsResult)]_vars

\* A transcription that failed has finished while a result of an earlier
\* transcription, of another file, is stored.
C25_Witness ==
    /\ wpc = "done"
    /\ tool = "transcribe"
    /\ failed
    /\ transcription_result.present
    /\ transcription_result.filename # BaseName(upload)

(***************************************************************************)
(* The configuration: config.py reads the environment when it is imported *)
(* and validates it; main.py picks the sidebar's Whisper model from it.    *)
(***************************************************************************)

\* An environment variable set to a value.
SetTo(v) == [set |-> TRUE, value |-> v]

\* os.getenv(name, default): the default only when the variable is unset.
getenv(e, name, default) == IF e[name].set THEN e[name].value ELSE default

\* config.py:37
WHISPER_MODEL_OPTIONS == {"tiny", "base", "small", "medium", "large"}

\* main.py:99
whisper_options == {"tiny", "base", "small", "medium", "large", "turbo"}

\* What the environment (or the .env file) may hold for the two variables.
ModelNameSettings == {Unset, SetTo(""), SetTo("llama3"), SetTo("mistral")}

WhisperModelSettings ==
    {Unset} \cup { SetTo(v) : v \in whisper_options \cup {"", "huge", "BASE"} }

Environments ==
    [MODEL_NAME : ModelNameSettings, WHISPER_MODEL : WhisperModelSettings]

\* The warnings of Config.validate.
WarnModelName == "MODEL_NAME not set, using default: llama3"

WarnWhisperUnset == "WHISPER_MODEL not set, using default: base"

WarnWhisperInvalid == "Invalid WHISPER_MODEL, using default: base"

\* The process starts in some environment.
ConfigInit ==
    /\ WebIdle /\ TimeIdle /\ ExportIdle /\ NetIdle /\ WhisperIdle
    /\ cpc = "import"
    /\ env \in Environments
    /\ MODEL_NAME = ""
    /\ WHISPER_MODEL = ""
    /\ warnings = <<>>
    /\ validated_ok = "none"
    /\ whisper_default = ""

\* config.py:26-27: the class body reads the two variables.
ImportConfig ==
    /\ cpc = "import"
    /\ MODEL_NAME' = getenv(env, "MODEL_NAME", "llama3")
    /\ WHISPER_MODEL' = getenv(env, "WHISPER_MODEL", "base")
    /\ cpc' = "validate"
    /\ UNCHANGED << env, warnings, validated_ok, whisper_default >>
    /\ UNCHANGED nonConfigVars

\* The warnings validate logs for the model name.
ModelNameWarnings == IF MODEL_NAME = "" THEN <<WarnModelName>> ELSE <<>>

\* config.py:40-50 Config.validate(), called at config.py:65.
validate ==
    /\ cpc = "validate"
    /\ IF WHISPER_MODEL = ""
       THEN /\ warnings' = ModelNameWarnings \o <<WarnWhisperUnset>>
            /\ UNCHANGED WHISPER_MODEL
       ELSE IF WHISPER_MODEL \notin WHISPER_MODEL_OPTIONS
       THEN /\ warnings' = ModelNameWarnings \o <<WarnWhisperInvalid>>
            /\ WHISPER_MODEL' = "base"
       ELSE /\ warnings' = ModelNameWarnings
            /\ UNCHANGED WHISPER_MODEL
    /\ validated_ok' = "True"
    /\ cpc' = "sidebar"
    /\ UNCHANGED << env, MODEL_NAME, whisper_default >>
    /\ UNCHANGED nonConfigVars

\* main.py:100 whisper_default = Config.WHISPER_MODEL if it is one of the
\* sidebar's options, else "large".
Sidebar ==
    /\ cpc = "sidebar"
    /\ whisper_default' =
           IF WHISPER_MODEL \in whisper_options THEN WHISPER_MODEL ELSE "large"
    /\ cpc' = "done"
    /\ UNCHANGED << env, MODEL_NAME, WHISPER_MODEL, warnings, validated_ok >>
    /\ UNCHANGED nonConfigVars

ConfigNext ==
    \/ ImportConfig
    \/ validate
    \/ Sidebar

ConfigSpec == ConfigInit /\ [][ConfigNext]_vars

\* validate has returned.
Validated == cpc \in {"sidebar", "done"}

\* C26: once validate has returned, it has returned True, WHISPER_MODEL is
\* one of WHISPER_MODEL_OPTIONS, it is "base" whenever a warning said the
\* default is used, and the sidebar pre-selects that same value.
C26_WhisperModelValid ==
    Validated =>
        /\ validated_ok = "True"
        /\ WHISPER_MODEL \in WHISPER_MODEL_OPTIONS
        /\ (\E i \in 1..Len(warnings) :
                warnings[i] \in {WarnWhisperUnset, WarnWhisperInvalid})
               => WHISPER_MODEL = "base"
        /\ cpc = "done" => whisper_default = WHISPER_MODEL

====
